---- MODULE Spec2Model ----
(***************************************************************************)
(* Turn orchestration of the voice assistant: the Dialogflow CX webhook    *)
(* (webhook_server.py), the Orchestrator (app/agents/agent.py) and the     *)
(* deterministic context and write agents it drives.                       *)
(*                                                                         *)
(* One session is modelled.  Its ADK session state is the record `state`;  *)
(* it outlives a turn, exactly as the InMemorySessionService keeps it.     *)
(* A key the code reads with .get() and that was never written holds the   *)
(* value Absent (or a record of kind "absent").                            *)
(*                                                                         *)
(* The three LlmAgents (guardrails, rag, response) are external            *)
(* capabilities.  Each run either returns its output, which the agent's    *)
(* output_key writes to the session state, or raises, or ends without a    *)
(* final output, in which case the key is left as it was (agent.py:392     *)
(* reads guardrails_result with a default).                                *)
(*                                                                         *)
(* The context agent, the write agent and the conversation history store   *)
(* are also run on their own (ContextSpec, WriteSpec, MemorySpec), as are   *)
(* the sentiment trend (TrendSpec), the authenticated flow of a session    *)
(* whose state holds a user_id (FlowSpec) and save_conversation called by  *)
(* several server processes at once (ConcurrentSpec).                      *)
(***************************************************************************)
EXTENDS Integers, FiniteSets, Sequences, TLC

\* ------------------------------------------------------------------ bounds
\* Number of webhook requests (turns) of the session that are explored.
MaxTurns == 2
\* Longest stored history the context agent is run against, besides one
\* history longer than the limit of 5 it fetches with.
CtxMaxHistory == 3
\* Longest history the sentiment trend is calculated for.
TrendMaxHistory == 6
\* Number of save_conversation calls made for the customer.
MaxSaves == 22
\* Callers of save_conversation running at the same time.
MaxSavers == 2

\* ------------------------------------------------------------- value sets
\* Python None, and a key that is absent from a dict.
NoneVal == "None"
Absent == "<absent>"

\* customer_id values a request may carry in sessionInfo.parameters.
ParamCustomerIds == {"", "C1"}
\* Customers the profile store holds a document for.
KnownCustomers == {"C1"}

Actions == {"allow", "escalate", "block"}
Categories == {"user_question", "urgent_legal", "out_of_scope",
               "greeting", "thanks", "goodbye"}
Sentiments == {"neutral", "frustrated"}

\* A validated GuardrailsResult as the guardrails agent's output_key stores it.
Decisions == [kind : {"dict"}, action : Actions, category : Categories,
              sentiment : Sentiments, is_authenticated : BOOLEAN]

\* A guardrails_result held as a text that is not JSON.
MalformedGuardrailsResult == [kind |-> "malformed", action |-> Absent,
                              category |-> Absent, sentiment |-> Absent,
                              is_authenticated |-> FALSE]

NoGuardrailsResult == [kind |-> "absent", action |-> Absent, category |-> Absent,
                       sentiment |-> Absent, is_authenticated |-> FALSE]

\* final_response as held in the session state: a JSON document, a text that
\* is not JSON, or nothing.
NoFinalResponse == [kind |-> "absent", decision |-> Absent, speech_text |-> Absent,
                    should_escalate |-> FALSE, by |-> Absent]

\* What the response LlmAgent may answer: a JSON final response (escalating
\* or not) or free text.
ResponseOutputs ==
    { [kind |-> "json", decision |-> "respond", speech_text |-> "speech",
       should_escalate |-> FALSE, by |-> "response_agent"],
      [kind |-> "json", decision |-> "escalate", speech_text |-> "speech",
       should_escalate |-> TRUE, by |-> "response_agent"],
      [kind |-> "text", decision |-> Absent, speech_text |-> "speech",
       should_escalate |-> FALSE, by |-> "response_agent"] }

\* user_data, tier_limits and history_data while they are None.
NoProfile == [name |-> NoneVal, tier |-> NoneVal]
NoLimits == [tier |-> NoneVal, item_1_max |-> 0]
NoHistory == [success |-> FALSE, has_history |-> FALSE, total_calls |-> 0,
              last_interactions |-> <<>>, last_topic |-> NoneVal,
              unresolved_issues |-> <<>>, sentiment_trend |-> NoneVal]

\* The profile and history fields of a ContextResult at their defaults.
NoProfileFields ==
    [user_id |-> NoneVal, user_tier |-> NoneVal, tier_limits |-> NoLimits,
     has_previous_interactions |-> FALSE, total_previous_calls |-> 0,
     last_topic |-> NoneVal, sentiment_trend |-> NoneVal, summary_parts |-> <<>>]

NoCustomerContext == [kind |-> "absent", found_key |-> Absent, found |-> FALSE,
                      is_guest |-> FALSE, summary |-> Absent] @@ NoProfileFields

NoReply == [sent |-> FALSE, text |-> Absent, escalate_to_agent |-> FALSE,
            target_page |-> Absent]

Falsy(v) == v \in {"", NoneVal, Absent}

VARIABLES
    turn,            \* requests received so far
    pc,              \* position of the request being served
    sessionExists,   \* session_service holds the session
    state,           \* ctx.session.state
    params,          \* sessionInfo.parameters of the current request
    parsed,          \* guardrails_result as _parse_guardrails_result returned it
    route,           \* branch _run_async_impl took this turn
    demoted,         \* _authenticated_flow fell back to _guest_flow this turn
    runs,            \* per turn: how often each stage was invoked
    frWrites,        \* per turn: assignments to state["final_response"]
    ccWrites,        \* per turn: assignments to state["customer_context"]
    savers,          \* callers of save_conversation that run side by side
    response_text,   \* webhook local
    should_escalate, \* webhook local
    faulted,         \* an exception left the pipeline this turn
    reply,           \* what the webhook returned for the current request
    w,               \* locals of the write agent's run
    classified,      \* per turn: how the guardrails run ended
    c,               \* locals of the context agent's run
    env,             \* what the stores answered, attempt by attempt
    first,           \* customer_context an earlier run of the context agent left
    hist             \* the customer's conversation_history document

\* The stores and the context agent's locals.
cvars == <<c, env, first, hist>>

vars == <<turn, pc, sessionExists, state, params, parsed, route, demoted, runs,
          frWrites, ccWrites, savers, response_text, should_escalate, faulted, reply, w,
          classified, c, env, first, hist>>

Stages == {"guardrails", "context", "rag", "response", "write", "log_telemetry",
           "save_conversation", "handoff"}

NoRuns == [s \in Stages |-> 0]

Ran(s) == runs' = [runs EXCEPT ![s] = @ + 1]

\* MAX_RETRIES of customer_context_agent.py and write_agent.py.
MAX_RETRIES == 2

NoWrite == [attempt |-> 0, telemetry_logged |-> FALSE, conversation_saved |-> FALSE,
            errors |-> <<>>, user_id |-> Absent, is_authenticated |-> FALSE,
            was_escalated |-> FALSE, topic |-> Absent, sentiment |-> Absent,
            handoff_ready |-> FALSE, flow_type |-> Absent]

PyBool(b) == IF b THEN "True" ELSE "False"

NoWriteResult == [conversation_saved |-> FALSE, telemetry_logged |-> FALSE,
                  handoff_ready |-> FALSE, resolution_status |-> Absent,
                  errors |-> <<"<absent>">>]

\* The context agent before it has run: no id, nothing fetched.
NoContextRun == [user_id |-> Absent, attempt |-> 0, user_data |-> NoProfile,
                 tier_limits |-> NoLimits, history_data |-> NoHistory,
                 calls |-> [profile |-> 0, limits |-> 0, history |-> 0],
                 sleeps |-> 0]

\* No store has been asked anything yet.
NoEnv == [profile |-> <<>>, limits |-> <<>>, history |-> <<>>, build |-> <<>>,
          clock |-> 0, saved |-> <<>>]

\* conversation_history holds no document for the customer.
NoDocument == [exists |-> FALSE, interactions |-> <<>>, unresolved_issues |-> <<>>]

\* Callers of save_conversation that run side by side, and what each holds
\* before it has been called.
Savers == 1..MaxSavers

NoInteraction == [ts |-> 0, topic |-> Absent, sentiment |-> Absent,
                  was_escalated |-> FALSE, resolution_status |-> Absent]

NoSavers == [s \in Savers |->
                [pc |-> "idle", doc |-> NoDocument, interaction |-> NoInteraction,
                 success |-> FALSE]]

InitialState ==
    [customer_id |-> Absent, caller_name |-> Absent, user_id |-> Absent,
     session_id |-> Absent, cx_parameters |-> Absent, original_query |-> Absent,
     guardrails_result |-> NoGuardrailsResult,
     customer_context |-> NoCustomerContext,
     rag_answer |-> Absent, personalize |-> Absent,
     final_response |-> NoFinalResponse, write_result |-> NoWriteResult]

Init ==
    /\ turn = 0
    /\ pc = "idle"
    /\ sessionExists = FALSE
    /\ state = InitialState
    /\ params = [customer_id |-> ""]
    /\ parsed = NoGuardrailsResult
    /\ route = Absent
    /\ demoted = FALSE
    /\ runs = NoRuns
    /\ frWrites = 0
    /\ response_text = ""
    /\ should_escalate = FALSE
    /\ faulted = FALSE
    /\ reply = NoReply
    /\ w = NoWrite
    /\ classified = Absent
    /\ c = NoContextRun
    /\ env = NoEnv
    /\ first = NoCustomerContext
    /\ hist = NoDocument
    /\ ccWrites = 0
    /\ savers = NoSavers

\* ------------------------------------------ app/tools/conversation_memory.py
MAX_STORED_INTERACTIONS == 20

\* seq[-n:]
LastN(seq, n) ==
    IF Len(seq) > n THEN SubSeq(seq, Len(seq) - n + 1, Len(seq)) ELSE seq

\* list.reverse()
Reverse(seq) == [i \in 1..Len(seq) |-> seq[Len(seq) + 1 - i]]

RECURSIVE Sum(_)
Sum(seq) == IF seq = <<>> THEN 0 ELSE seq[1] + Sum(Tail(seq))

\* The scores dict of _calculate_sentiment_trend, read with .get(s, 0).
Score(sentiment) ==
    CASE sentiment = "positive" -> 2
      [] sentiment = "neutral" -> 1
      [] sentiment = "negative" -> 0 - 1
      [] sentiment = "frustrated" -> 0 - 2
      [] OTHER -> 0

\* Faulty variant of CalculateSentimentTrend: the halves are taken over the
\* whole history instead of its last five interactions.
CalculateSentimentTrendWholeHistory(interactions) ==
    IF Len(interactions) < 2 THEN "unknown"
    ELSE LET recent_scores ==
                 [i \in 1..Len(interactions) |-> Score(interactions[i].sentiment)]
             half == Len(recent_scores) \div 2
             first_half == Sum(SubSeq(recent_scores, 1, half))
             second_half == Sum(SubSeq(recent_scores, half + 1, Len(recent_scores)))
         IN  IF Len(recent_scores) >= 3 /\ second_half > first_half + 1 THEN "improving"
             ELSE IF Len(recent_scores) >= 3 /\ second_half < first_half - 1 THEN "declining"
             ELSE "stable"

\* _calculate_sentiment_trend
CalculateSentimentTrend(interactions) ==
    IF Len(interactions) < 2 THEN "unknown"
    ELSE LET recent == LastN(interactions, 5)
             recent_scores == [i \in 1..Len(recent) |-> Score(recent[i].sentiment)]
             half == Len(recent_scores) \div 2
             first_half == Sum(SubSeq(recent_scores, 1, half))
             second_half == Sum(SubSeq(recent_scores, half + 1, Len(recent_scores)))
         IN  IF Len(recent_scores) >= 3 /\ second_half > first_half + 1 THEN "improving"
             ELSE IF Len(recent_scores) >= 3 /\ second_half < first_half - 1 THEN "declining"
             ELSE "stable"

\* fetch_conversation_history, the body of its try block.  With no more than
\* `limit` interactions `recent` is the list itself, so recent.reverse() has
\* reversed `interactions` before the trend is calculated from it.
FetchConversationHistory(doc, limit) ==
    IF ~doc.exists
    THEN [success |-> TRUE, has_history |-> FALSE, total_calls |-> 0,
          last_interactions |-> <<>>, last_topic |-> NoneVal,
          unresolved_issues |-> <<>>, sentiment_trend |-> "unknown"]
    ELSE LET interactions == doc.interactions
             sliced == Len(interactions) > limit
             recent == Reverse(LastN(interactions, limit))
             seen == IF sliced THEN interactions ELSE Reverse(interactions)
         IN  [success |-> TRUE, has_history |-> TRUE,
              total_calls |-> Len(seen),
              last_interactions |-> recent,
              last_topic |-> IF recent # <<>> THEN recent[1].topic ELSE NoneVal,
              unresolved_issues |-> doc.unresolved_issues,
              sentiment_trend |-> CalculateSentimentTrend(seen)]

\* list.remove(x): the first occurrence is taken out.
RECURSIVE Remove(_, _)
Remove(seq, x) ==
    IF seq = <<>> THEN <<>>
    ELSE IF seq[1] = x THEN Tail(seq)
    ELSE <<seq[1]>> \o Remove(Tail(seq), x)

InSeq(x, seq) == \E i \in 1..Len(seq) : seq[i] = x

\* Faulty variant of SaveConversation: the trim keeps the oldest records.
SaveConversationKeepsOldest(doc, interaction) ==
    IF doc.exists
    THEN LET appended == Append(doc.interactions, interaction)
         IN  [exists |-> TRUE,
              interactions |->
                  IF Len(appended) > MAX_STORED_INTERACTIONS
                  THEN SubSeq(appended, 1, MAX_STORED_INTERACTIONS)
                  ELSE appended,
              unresolved_issues |-> doc.unresolved_issues]
    ELSE [exists |-> TRUE, interactions |-> <<interaction>>,
          unresolved_issues |-> <<>>]

\* save_conversation, the body of its try block: the document after the call.
SaveConversation(doc, interaction) ==
    IF doc.exists
    THEN LET appended == Append(doc.interactions, interaction)
             topic == interaction.topic
             unresolved == doc.unresolved_issues
         IN  [exists |-> TRUE,
              interactions |->
                  IF Len(appended) > MAX_STORED_INTERACTIONS
                  THEN LastN(appended, MAX_STORED_INTERACTIONS)
                  ELSE appended,
              unresolved_issues |->
                  IF interaction.resolution_status = "pending" /\ ~InSeq(topic, unresolved)
                  THEN Append(unresolved, topic)
                  ELSE IF interaction.resolution_status = "resolved" /\ InSeq(topic, unresolved)
                  THEN Remove(unresolved, topic)
                  ELSE unresolved]
    ELSE [exists |-> TRUE, interactions |-> <<interaction>>,
          unresolved_issues |->
              IF interaction.resolution_status = "pending"
              THEN <<interaction.topic>> ELSE <<>>]

\* ------------------------------------------------------- webhook_server.py
\* What a request body can be: not JSON at all, JSON without any user text,
\* or JSON with a user query.
BodyKinds == {"malformed", "no_query", "query"}

TechnicalIssueText == "technical_issue"

\* _build_response: escalation adds the flag and the hand-off page.
BuildResponse(text, escalate) ==
    [sent |-> TRUE, text |-> text, escalate_to_agent |-> escalate,
     target_page |-> IF escalate THEN "LIVE_AGENT_HANDOFF" ELSE Absent]

\* `a or b` on the string values of the session parameters.
Or(a, b) == IF Falsy(a) THEN b ELSE a

\* dialogflow_webhook, from the request up to the call of runner.run_async.
WebhookReceive ==
    /\ pc \in {"idle", "replied"}
    /\ turn < MaxTurns
    /\ turn' = turn + 1
    /\ \E body \in BodyKinds, cid \in ParamCustomerIds :
         /\ params' = [customer_id |-> cid]
         /\ IF body = "malformed"
              THEN /\ pc' = "except"
                   /\ faulted' = TRUE
                   /\ reply' = NoReply
                   /\ UNCHANGED <<sessionExists, state>>
              ELSE IF body = "no_query"
              THEN /\ pc' = "replied"
                   /\ faulted' = FALSE
                   /\ reply' = BuildResponse("didnt_catch", FALSE)
                   /\ UNCHANGED <<sessionExists, state>>
              ELSE /\ pc' = "run"
                   /\ faulted' = FALSE
                   /\ reply' = NoReply
                   /\ sessionExists' = TRUE
                   /\ state' =
                        IF sessionExists
                        THEN [state EXCEPT
                                !.customer_id = Or(cid, IF @ = Absent THEN "" ELSE @),
                                !.caller_name = Or("", IF @ = Absent THEN "" ELSE @)]
                        ELSE [state EXCEPT
                                !.customer_id = cid,
                                !.caller_name = "",
                                !.session_id = "session"]
    /\ parsed' = NoGuardrailsResult
    /\ route' = Absent
    /\ demoted' = FALSE
    /\ runs' = NoRuns
    /\ frWrites' = 0
    /\ response_text' = ""
    /\ should_escalate' = FALSE
    /\ w' = NoWrite
    /\ classified' = Absent
    /\ UNCHANGED cvars
    /\ ccWrites' = 0
    /\ UNCHANGED savers

\* The lines after the event loop: take final_response from the session state
\* when no event carried a text, fall back to the apology, and reply.
WebhookReply ==
    /\ pc = "done"
    /\ LET fr == state.final_response
           fromState == response_text = "" /\ fr.kind # "absent"
           text1 == IF fromState THEN fr.speech_text ELSE response_text
           esc == IF fromState /\ fr.kind = "json" THEN fr.should_escalate
                  ELSE should_escalate
           text2 == IF text1 = "" THEN "couldnt_process" ELSE text1
       IN  /\ response_text' = text2
           /\ should_escalate' = esc
           /\ reply' = BuildResponse(text2, esc)
    /\ pc' = "replied"
    /\ UNCHANGED <<cvars, classified, w, turn, sessionExists, state, params, parsed, route, demoted,
                   runs, frWrites, faulted>>
    /\ UNCHANGED <<ccWrites, savers>>

\* Faulty variant of WebhookExcept: the message is sent without the hand-off.
WebhookExceptNoEscalation ==
    /\ pc = "except"
    /\ reply' = BuildResponse(TechnicalIssueText, FALSE)
    /\ pc' = "replied"
    /\ UNCHANGED <<cvars, classified, w, turn, sessionExists, state, params, parsed, route,
                   demoted, runs, frWrites, response_text, should_escalate, faulted>>
    /\ UNCHANGED <<ccWrites, savers>>

\* except Exception: the generic message, escalated.
WebhookExcept ==
    /\ pc = "except"
    /\ reply' = BuildResponse(TechnicalIssueText, TRUE)
    /\ pc' = "replied"
    /\ UNCHANGED <<cvars, classified, w, turn, sessionExists, state, params, parsed, route, demoted,
                   runs, frWrites, response_text, should_escalate, faulted>>
    /\ UNCHANGED <<ccWrites, savers>>

\* ------------------------------------------------- app/agents/agent.py
SimpleCategories == {"greeting", "thanks", "goodbye"}

\* The dict _parse_guardrails_result returns on a JSONDecodeError; it has no
\* sentiment key.
DefaultedDecision == [kind |-> "defaulted", action |-> "escalate",
                      category |-> "out_of_scope", sentiment |-> Absent,
                      is_authenticated |-> FALSE]

EmptyDict == [kind |-> "empty", action |-> Absent, category |-> Absent,
              sentiment |-> Absent, is_authenticated |-> FALSE]

\* Faulty variant of ParseGuardrailsResult: a text that does not parse is read
\* as the empty dict.
ParseGuardrailsResultLenient(raw) ==
    IF raw.kind = "dict" THEN raw
    ELSE EmptyDict

\* _parse_guardrails_result: a dict is returned as it is; a missing key reads
\* as the text "{}", which parses to the empty dict; a text that is not JSON
\* gives the defaulted decision.
ParseGuardrailsResult(raw) ==
    IF raw.kind = "dict" THEN raw
    ELSE IF raw.kind = "malformed" THEN DefaultedDecision
    ELSE EmptyDict

\* guardrails_result.get(key, default) for the keys the orchestrator reads.
GetAction(g) == IF g.action # Absent THEN g.action ELSE "allow"
GetCategory(g) == IF g.category # Absent THEN g.category ELSE "other"
GetIsAuthenticated(g) == IF g.kind \in {"dict", "defaulted"} THEN g.is_authenticated ELSE FALSE
GetSentiment(g) == IF g.sentiment # Absent THEN g.sentiment ELSE "neutral"

\* Faulty variant of RouteOf: the simple categories are tested first.
RouteOfCategoryFirst(action, category, is_authenticated) ==
    IF category \in SimpleCategories THEN "SIMPLE_REPLY"
    ELSE IF action = "block" THEN "BLOCKED"
    ELSE IF action = "escalate" THEN "ESCALATED"
    ELSE IF is_authenticated THEN "AUTH_FLOW"
    ELSE "GUEST_FLOW"

\* Faulty variant of RouteOf: authentication is tested before the category.
RouteOfAuthFirst(action, category, is_authenticated) ==
    IF action = "block" THEN "BLOCKED"
    ELSE IF action = "escalate" THEN "ESCALATED"
    ELSE IF is_authenticated THEN "AUTH_FLOW"
    ELSE IF category \in SimpleCategories THEN "SIMPLE_REPLY"
    ELSE "GUEST_FLOW"

\* The chain of tests in _run_async_impl that picks the branch.
RouteOf(action, category, is_authenticated) ==
    IF action = "block" THEN "BLOCKED"
    ELSE IF action = "escalate" THEN "ESCALATED"
    ELSE IF category \in SimpleCategories THEN "SIMPLE_REPLY"
    ELSE IF is_authenticated THEN "AUTH_FLOW"
    ELSE "GUEST_FLOW"

\* ResponseTemplates.get_blocked_message / get_escalation_message /
\* get_greeting_message: the template each selects.
BlockedTemplate(category) ==
    IF category \in {"out_of_scope", "security_risk"}
    THEN IF category = "out_of_scope" THEN "BLOCKED.out_of_scope"
         ELSE "BLOCKED.security_risk"
    ELSE "BLOCKED.default"

\* Faulty variant of EscalationTemplate: the sentiment is tested before the
\* category.
EscalationTemplateSentimentFirst(category, sentiment) ==
    IF sentiment = "frustrated" THEN "ESCALATION.frustrated"
    ELSE IF category = "urgent_legal" THEN "ESCALATION.urgent_legal"
    ELSE "ESCALATION.default"

\* ResponseTemplates.get_escalation_message.
EscalationTemplate(category, sentiment) ==
    IF category = "urgent_legal" THEN "ESCALATION.urgent_legal"
    ELSE IF sentiment = "frustrated" THEN "ESCALATION.frustrated"
    ELSE "ESCALATION.default"

GreetingTemplate(category) ==
    IF category = "greeting" THEN "GREETING"
    ELSE IF category = "thanks" THEN "THANKS"
    ELSE IF category = "goodbye" THEN "GOODBYE"
    ELSE "GREETING"

\* Faulty variant of BlockedFinalState: a blocked turn is handed to an agent.
BlockedFinalStateEscalating(category) ==
    [kind |-> "json", decision |-> "respond",
     speech_text |-> BlockedTemplate(category),
     should_escalate |-> TRUE, by |-> "orchestrator"]

\* Faulty variant of EscalationFinalState: the defaults of create_final_state
\* are left in place.
EscalationFinalStateDefaults(category, sentiment) ==
    [kind |-> "json", decision |-> "respond",
     speech_text |-> EscalationTemplate(category, sentiment),
     should_escalate |-> FALSE, by |-> "orchestrator"]

\* ResponseHandler.create_final_state as each short-circuit handler calls it.
BlockedFinalState(category) ==
    [kind |-> "json", decision |-> "respond",
     speech_text |-> BlockedTemplate(category),
     should_escalate |-> FALSE, by |-> "orchestrator"]

EscalationFinalState(category, sentiment) ==
    [kind |-> "json", decision |-> "escalate",
     speech_text |-> EscalationTemplate(category, sentiment),
     should_escalate |-> TRUE, by |-> "orchestrator"]

SimpleFinalState(category) ==
    [kind |-> "json", decision |-> "respond",
     speech_text |-> GreetingTemplate(category),
     should_escalate |-> FALSE, by |-> "orchestrator"]

\* _run_async_impl up to the guardrails run: cx_parameters (kept only when a
\* parameter is set) and original_query are stored.
RunAsyncImplStart ==
    /\ pc = "run"
    /\ state' = [state EXCEPT
                   !.cx_parameters = IF Falsy(state.customer_id) THEN @
                                     ELSE state.customer_id,
                   !.original_query = "query"]
    /\ pc' = "guardrails"
    /\ UNCHANGED <<cvars, classified, w, turn, sessionExists, params, parsed, route, demoted, runs,
                   frWrites, response_text, should_escalate, faulted, reply>>
    /\ UNCHANGED <<ccWrites, savers>>

\* The guardrails LlmAgent: its output is whatever the model answers; the
\* session parameters do not constrain it.  The result is stored as a dict,
\* or as a text that is not JSON; the run may also store nothing, or raise.
RunGuardrailsAgent ==
    /\ pc = "guardrails"
    /\ Ran("guardrails")
    /\ \/ \E d \in Decisions :
            /\ state' = [state EXCEPT !.guardrails_result = d]
            /\ response_text' = "guardrails_json"
            /\ classified' = "result"
            /\ pc' = "route"
            /\ UNCHANGED faulted
       \/ /\ state' = [state EXCEPT !.guardrails_result = MalformedGuardrailsResult]
          /\ response_text' = "guardrails_text"
          /\ classified' = "malformed"
          /\ pc' = "route"
          /\ UNCHANGED faulted
       \/ /\ classified' = "no_result"
          /\ pc' = "route"
          /\ UNCHANGED <<state, response_text, faulted>>
       \/ /\ classified' = "raised"
          /\ pc' = "except"
          /\ faulted' = TRUE
          /\ UNCHANGED <<state, response_text>>
    /\ UNCHANGED <<cvars, w, turn, sessionExists, params, parsed, route, demoted,
                   frWrites, should_escalate, reply>>
    /\ UNCHANGED <<ccWrites, savers>>

\* _run_async_impl after the guardrails run: parse the result and branch.
RouteOnGuardrails ==
    /\ pc = "route"
    /\ LET g == ParseGuardrailsResult(state.guardrails_result)
           r == RouteOf(GetAction(g), GetCategory(g), GetIsAuthenticated(g))
       IN  /\ parsed' = g
           /\ route' = r
           /\ pc' = r
    /\ UNCHANGED <<cvars, classified, w, turn, sessionExists, state, params, demoted, runs, frWrites,
                   response_text, should_escalate, faulted, reply>>
    /\ UNCHANGED <<ccWrites, savers>>

\* _handle_blocked_route: the event is yielded, then final_response is stored.
HandleBlockedRoute ==
    /\ pc = "BLOCKED"
    /\ response_text' = BlockedTemplate(GetCategory(parsed))
    /\ state' = [state EXCEPT !.final_response = BlockedFinalState(GetCategory(parsed))]
    /\ frWrites' = frWrites + 1
    /\ pc' = "done"
    /\ UNCHANGED <<cvars, classified, w, turn, sessionExists, params, parsed, route, demoted, runs,
                   should_escalate, faulted, reply>>
    /\ UNCHANGED <<ccWrites, savers>>

\* _handle_escalation
HandleEscalation ==
    /\ pc = "ESCALATED"
    /\ response_text' = EscalationTemplate(GetCategory(parsed), GetSentiment(parsed))
    /\ state' = [state EXCEPT !.final_response =
                   EscalationFinalState(GetCategory(parsed), GetSentiment(parsed))]
    /\ frWrites' = frWrites + 1
    /\ pc' = "done"
    /\ UNCHANGED <<cvars, classified, w, turn, sessionExists, params, parsed, route, demoted, runs,
                   should_escalate, faulted, reply>>
    /\ UNCHANGED <<ccWrites, savers>>

\* Faulty variant of HandleSimpleResponse: the write agent is run after the
\* canned reply.
HandleSimpleResponseThenWrite ==
    /\ pc = "SIMPLE_REPLY"
    /\ response_text' = GreetingTemplate(GetCategory(parsed))
    /\ state' = [state EXCEPT !.final_response = SimpleFinalState(GetCategory(parsed))]
    /\ frWrites' = frWrites + 1
    /\ pc' = "write"
    /\ UNCHANGED <<cvars, classified, w, turn, sessionExists, params, parsed, route, demoted, runs,
                   should_escalate, faulted, reply>>
    /\ UNCHANGED <<ccWrites, savers>>

\* _handle_simple_response
HandleSimpleResponse ==
    /\ pc = "SIMPLE_REPLY"
    /\ response_text' = GreetingTemplate(GetCategory(parsed))
    /\ state' = [state EXCEPT !.final_response = SimpleFinalState(GetCategory(parsed))]
    /\ frWrites' = frWrites + 1
    /\ pc' = "done"
    /\ UNCHANGED <<cvars, classified, w, turn, sessionExists, params, parsed, route, demoted, runs,
                   should_escalate, faulted, reply>>
    /\ UNCHANGED <<ccWrites, savers>>

\* _authenticated_flow, first lines: the identifiers of the guardrails result
\* replace those of the session.  GuardrailsResult (guardrails_agent.py) has no
\* customer_id field, so .get("customer_id") is None; the modelled result
\* carries no caller_name either.
AuthenticatedFlow ==
    /\ pc = "AUTH_FLOW"
    /\ state' = [state EXCEPT !.customer_id = NoneVal, !.caller_name = NoneVal]
    /\ pc' = "context"
    /\ UNCHANGED <<cvars, classified, w, turn, sessionExists, params, parsed, route, demoted, runs,
                   frWrites, response_text, should_escalate, faulted, reply>>
    /\ UNCHANGED <<ccWrites, savers>>

\* ---------------------------------- app/agents/customer_context_agent.py
\* ContextResult as _safe_store_result serialises it: the found flag is stored
\* under the key "user_found".
NotFoundContextResult ==
    [kind |-> "context_result", found_key |-> "user_found", found |-> FALSE,
     is_guest |-> FALSE, summary |-> "User not found in database"] @@ NoProfileFields

\* Faulty variant of ErrorContextResult: the fallback keeps what had been
\* fetched before the fault.
ErrorContextResultKeepsProfile ==
    [kind |-> "context_result", found_key |-> "user_found", found |-> FALSE,
     is_guest |-> FALSE, summary |-> "Error fetching user context"] @@
    [NoProfileFields EXCEPT !.user_tier = c.user_data.tier]

\* The fallback result of the outer except handler.
ErrorContextResult ==
    [kind |-> "context_result", found_key |-> "user_found", found |-> FALSE,
     is_guest |-> FALSE, summary |-> "Error fetching user context"] @@ NoProfileFields

\* The last fallback of _safe_store_result: neither serialisation of the
\* result worked and a minimal dict is stored.
MinimalContextResult ==
    [kind |-> "context_result", found_key |-> "user_found", found |-> FALSE,
     is_guest |-> FALSE, summary |-> "Critical error storing user context"]
        @@ NoProfileFields

\* The document the profile store holds for a customer.
ProfileOf(id) == [name |-> "Ann", tier |-> "Premium"]

\* The row the limits store holds for a tier.
LimitsOf(tier) == [tier |-> tier, item_1_max |-> 5000]

\* What a call of a store can do: return a success, return a failure as a
\* value (success False), or raise.  The profile store may also return a
\* success with an empty document.  A customer the store holds no document
\* for is never returned.
ProfileOutcomes(id) ==
    IF id \in KnownCustomers THEN {"found", "empty", "failed", "raised"}
    ELSE {"failed", "raised"}
LimitsOutcomes == {"ok", "failed", "raised"}
HistoryOutcomes == {"ok", "failed", "raised"}
\* Building the result: it succeeds, the summary text fails inside
\* _build_summary, the ContextResult itself is rejected, or the result cannot
\* be serialised by _safe_store_result.
BuildOutcomes == {"ok", "summary_fault", "result_fault", "store_fault"}

\* The answers open to call number k of a store: the one it already gave for
\* the same call against the same store state, else any of `outcomes`.
Answers(key, k, outcomes) ==
    IF Len(env[key]) >= k THEN {env[key][k]} ELSE outcomes

Answered(key, k, o) ==
    IF Len(env[key]) >= k THEN env ELSE [env EXCEPT ![key] = Append(@, o)]

\* _build_summary: the parts of the text, in order.
BuildSummary(user, limits, history) ==
    <<user.tier>> \o
    (IF history.success /\ history.has_history
     THEN (IF history.total_calls > 1 THEN <<"returning">> ELSE <<>>) \o
          (IF history.last_topic # NoneVal THEN <<"last_topic">> ELSE <<>>) \o
          (IF history.unresolved_issues # <<>> THEN <<"unresolved">> ELSE <<>>) \o
          (IF history.sentiment_trend = "declining" THEN <<"declining">> ELSE <<>>)
     ELSE <<"first_call">>)

\* Faulty variant of FoundContextResult: the history fields are filled from
\* the stored document when the history fetch gave nothing.
FoundContextResultReadsStore(user_id, user, limits, history, summary, parts) ==
    [kind |-> "context_result", found_key |-> "user_found", found |-> TRUE,
     is_guest |-> FALSE, summary |-> summary,
     user_id |-> user_id, user_tier |-> user.tier, tier_limits |-> limits,
     has_previous_interactions |->
         IF history.success THEN history.has_history ELSE hist.exists,
     total_previous_calls |->
         IF history.success THEN history.total_calls ELSE Len(hist.interactions),
     last_topic |-> IF history.success THEN history.last_topic ELSE NoneVal,
     sentiment_trend |->
         IF history.success THEN history.sentiment_trend ELSE NoneVal,
     summary_parts |-> parts]

\* ContextResult(user_found=True, ...) as STEP 4 builds it.
FoundContextResult(user_id, user, limits, history, summary, parts) ==
    [kind |-> "context_result", found_key |-> "user_found", found |-> TRUE,
     is_guest |-> FALSE, summary |-> summary,
     user_id |-> user_id, user_tier |-> user.tier, tier_limits |-> limits,
     has_previous_interactions |->
         IF history.success THEN history.has_history ELSE FALSE,
     total_previous_calls |-> IF history.success THEN history.total_calls ELSE 0,
     last_topic |-> IF history.success THEN history.last_topic ELSE NoneVal,
     sentiment_trend |->
         IF history.success THEN history.sentiment_trend ELSE NoneVal,
     summary_parts |-> parts]

\* Faulty variant of RunCustomerContextAgent: the profile store is asked even
\* when there is no id.
RunCustomerContextAgentAlwaysFetches ==
    /\ pc = "context"
    /\ Ran("context")
    /\ c' = [NoContextRun EXCEPT
               !.user_id = IF state.user_id = Absent THEN "" ELSE state.user_id]
    /\ pc' = "ctx_profile"
    /\ UNCHANGED <<state, env, first, hist, classified, w, turn, sessionExists, params,
                   parsed, route, demoted, frWrites, response_text, should_escalate,
                   faulted, reply>>
    /\ UNCHANGED <<ccWrites, savers>>

\* ContextAgent._run_async_impl, its first lines.  The id it looks up is
\* state["user_id"]; with no id the profile loop breaks at once and the
\* not-found result is stored.
RunCustomerContextAgent ==
    /\ pc = "context"
    /\ Ran("context")
    /\ c' = [NoContextRun EXCEPT
               !.user_id = IF state.user_id = Absent THEN "" ELSE state.user_id]
    /\ IF Falsy(state.user_id)
       THEN /\ state' = [state EXCEPT !.customer_context = NotFoundContextResult]
            /\ pc' = "auth_check"
       ELSE /\ pc' = "ctx_profile"
            /\ UNCHANGED state
    /\ UNCHANGED <<env, first, hist, classified, w, turn, sessionExists, params, parsed,
                   route, demoted, frWrites, response_text, should_escalate, faulted, reply>>
    /\ ccWrites' = IF Falsy(state.user_id) THEN ccWrites + 1 ELSE ccWrites
    /\ UNCHANGED savers

\* STEP 1, one pass of the profile loop.  A success ends the loop and writes
\* the id back to the state; a failure returned as a value goes to the next
\* pass; a raised exception is caught and, unless it was the last pass, the
\* agent sleeps.  Leaving the loop without user data stores the not-found
\* result and returns.
FetchProfileAttempt ==
    /\ pc = "ctx_profile"
    /\ \E o \in Answers("profile", c.attempt + 1, ProfileOutcomes(c.user_id)) :
         LET last == c.attempt + 1 = MAX_RETRIES
             called == [c EXCEPT !.calls.profile = @ + 1]
         IN  /\ env' = Answered("profile", c.attempt + 1, o)
             /\ IF o = "found"
                THEN /\ c' = [called EXCEPT !.user_data = ProfileOf(c.user_id),
                                            !.attempt = 0]
                     /\ state' = [state EXCEPT !.user_id = c.user_id]
                     /\ pc' = "ctx_limits"
                ELSE IF o = "empty"
                THEN /\ c' = called
                     /\ state' = [state EXCEPT !.user_id = c.user_id,
                                     !.customer_context = NotFoundContextResult]
                     /\ pc' = "auth_check"
                ELSE /\ c' = [called EXCEPT
                               !.attempt = @ + 1,
                               !.sleeps = IF o = "raised" /\ ~last THEN @ + 1 ELSE @]
                     /\ IF last
                        THEN /\ state' = [state EXCEPT
                                            !.customer_context = NotFoundContextResult]
                             /\ pc' = "auth_check"
                        ELSE UNCHANGED <<state, pc>>
    /\ UNCHANGED <<first, hist, classified, w, turn, sessionExists, params, parsed,
                   route, demoted, runs, frWrites, response_text, should_escalate,
                   faulted, reply>>
    /\ ccWrites' = IF pc' = "auth_check" THEN ccWrites + 1 ELSE ccWrites
    /\ UNCHANGED savers

\* Faulty variant of FetchLimitsAttempt: the loop is left only by a success.
FetchLimitsAttemptUntilSuccess ==
    /\ pc = "ctx_limits"
    /\ \E o \in LimitsOutcomes :
         LET called == [c EXCEPT !.calls.limits = @ + 1]
         IN  /\ env' = [env EXCEPT !.limits = Append(@, o)]
             /\ IF o = "ok"
                THEN /\ c' = [called EXCEPT !.tier_limits = LimitsOf(c.user_data.tier),
                                            !.attempt = 0]
                     /\ pc' = "ctx_history"
                ELSE /\ c' = [called EXCEPT
                               !.sleeps = IF o = "raised" THEN @ + 1 ELSE @]
                     /\ pc' = pc
    /\ UNCHANGED <<state, first, hist, classified, w, turn, sessionExists, params,
                   parsed, route, demoted, runs, frWrites, response_text,
                   should_escalate, faulted, reply>>
    /\ UNCHANGED <<ccWrites, savers>>

\* Faulty variant of FetchLimitsAttempt: when the last pass fails the agent
\* gives up and stores the not-found result.
FetchLimitsAttemptAborts ==
    /\ pc = "ctx_limits"
    /\ \E o \in Answers("limits", c.attempt + 1, LimitsOutcomes) :
         LET last == c.attempt + 1 = MAX_RETRIES
             called == [c EXCEPT !.calls.limits = @ + 1]
         IN  /\ env' = Answered("limits", c.attempt + 1, o)
             /\ IF o = "ok"
                THEN /\ c' = [called EXCEPT !.tier_limits = LimitsOf(c.user_data.tier),
                                            !.attempt = 0]
                     /\ pc' = "ctx_history"
                     /\ UNCHANGED state
                ELSE /\ c' = [called EXCEPT
                               !.attempt = IF last THEN 0 ELSE @ + 1,
                               !.sleeps = IF o = "raised" /\ ~last THEN @ + 1 ELSE @]
                     /\ pc' = IF last THEN "auth_check" ELSE pc
                     /\ state' = IF last
                                 THEN [state EXCEPT
                                         !.customer_context = NotFoundContextResult]
                                 ELSE state
    /\ UNCHANGED <<first, hist, classified, w, turn, sessionExists, params,
                   parsed, route, demoted, runs, frWrites, response_text,
                   should_escalate, faulted, reply>>
    /\ ccWrites' = IF pc' = "auth_check" THEN ccWrites + 1 ELSE ccWrites
    /\ UNCHANGED savers

\* STEP 2, one pass of the limits loop; without limits the agent goes on.
FetchLimitsAttempt ==
    /\ pc = "ctx_limits"
    /\ \E o \in Answers("limits", c.attempt + 1, LimitsOutcomes) :
         LET last == c.attempt + 1 = MAX_RETRIES
             called == [c EXCEPT !.calls.limits = @ + 1]
         IN  /\ env' = Answered("limits", c.attempt + 1, o)
             /\ IF o = "ok"
                THEN /\ c' = [called EXCEPT !.tier_limits = LimitsOf(c.user_data.tier),
                                            !.attempt = 0]
                     /\ pc' = "ctx_history"
                ELSE /\ c' = [called EXCEPT
                               !.attempt = IF last THEN 0 ELSE @ + 1,
                               !.sleeps = IF o = "raised" /\ ~last THEN @ + 1 ELSE @]
                     /\ pc' = IF last THEN "ctx_history" ELSE pc
    /\ UNCHANGED <<state, first, hist, classified, w, turn, sessionExists, params,
                   parsed, route, demoted, runs, frWrites, response_text,
                   should_escalate, faulted, reply>>
    /\ UNCHANGED <<ccWrites, savers>>

\* Faulty variant of FetchHistoryAttempt: the reversal done while reading
\* reaches the stored document.
FetchHistoryAttemptReversing ==
    /\ pc = "ctx_history"
    /\ \E o \in Answers("history", c.attempt + 1, HistoryOutcomes) :
         LET last == c.attempt + 1 = MAX_RETRIES
             called == [c EXCEPT !.calls.history = @ + 1]
         IN  /\ env' = Answered("history", c.attempt + 1, o)
             /\ IF o = "ok"
                THEN /\ c' = [called EXCEPT
                               !.history_data = FetchConversationHistory(hist, 5),
                               !.attempt = 0]
                     /\ hist' = [hist EXCEPT !.interactions = Reverse(@)]
                     /\ pc' = "ctx_build"
                ELSE /\ c' = [called EXCEPT
                               !.attempt = IF last THEN 0 ELSE @ + 1,
                               !.sleeps = IF o = "raised" /\ ~last THEN @ + 1 ELSE @]
                     /\ pc' = IF last THEN "ctx_build" ELSE pc
                     /\ UNCHANGED hist
    /\ UNCHANGED <<state, first, classified, w, turn, sessionExists, params,
                   parsed, route, demoted, runs, frWrites, response_text,
                   should_escalate, faulted, reply>>
    /\ UNCHANGED <<ccWrites, savers>>

\* STEP 3, one pass of the history loop (limit=5); without history the agent
\* goes on.  The call passes customer_id= to fetch_conversation_history, whose
\* parameter is user_id: where the call is bound to that function it raises on
\* every pass, which is the outcome "raised".
FetchHistoryAttempt ==
    /\ pc = "ctx_history"
    /\ \E o \in Answers("history", c.attempt + 1, HistoryOutcomes) :
         LET last == c.attempt + 1 = MAX_RETRIES
             called == [c EXCEPT !.calls.history = @ + 1]
         IN  /\ env' = Answered("history", c.attempt + 1, o)
             /\ IF o = "ok"
                THEN /\ c' = [called EXCEPT
                               !.history_data = FetchConversationHistory(hist, 5),
                               !.attempt = 0]
                     /\ pc' = "ctx_build"
                ELSE /\ c' = [called EXCEPT
                               !.attempt = IF last THEN 0 ELSE @ + 1,
                               !.sleeps = IF o = "raised" /\ ~last THEN @ + 1 ELSE @]
                     /\ pc' = IF last THEN "ctx_build" ELSE pc
    /\ UNCHANGED <<state, first, hist, classified, w, turn, sessionExists, params,
                   parsed, route, demoted, runs, frWrites, response_text,
                   should_escalate, faulted, reply>>
    /\ UNCHANGED <<ccWrites, savers>>

\* Faulty variant of BuildContextResult: a rejected ContextResult is not
\* caught and leaves the agent.
BuildContextResultUnguarded ==
    /\ pc = "ctx_build"
    /\ \E o \in Answers("build", 1, BuildOutcomes) :
         /\ env' = Answered("build", 1, o)
         /\ IF o = "result_fault"
            THEN /\ faulted' = TRUE
                 /\ pc' = "except"
                 /\ UNCHANGED state
            ELSE /\ state' = [state EXCEPT !.customer_context =
                        IF o = "store_fault" THEN MinimalContextResult
                        ELSE
                        FoundContextResult(c.user_id, c.user_data, c.tier_limits,
                                           c.history_data, "profile_summary",
                                           BuildSummary(c.user_data, c.tier_limits,
                                                        c.history_data))]
                 /\ pc' = "auth_check"
                 /\ UNCHANGED faulted
    /\ UNCHANGED <<c, first, hist, classified, w, turn, sessionExists, params, parsed,
                   route, demoted, runs, frWrites, response_text, should_escalate,
                   reply>>
    /\ ccWrites' = IF pc' = "auth_check" THEN ccWrites + 1 ELSE ccWrites
    /\ UNCHANGED savers

\* STEP 4 and the outer except: the result is built and stored; a fault in
\* _build_summary degrades the summary; a rejected ContextResult is caught by
\* the outer handler, which stores the error fallback; a result that cannot be
\* serialised is replaced by the minimal dict.
BuildContextResult ==
    /\ pc = "ctx_build"
    /\ \E o \in Answers("build", 1, BuildOutcomes) :
         /\ env' = Answered("build", 1, o)
         /\ state' = [state EXCEPT !.customer_context =
                IF o = "result_fault" THEN ErrorContextResult
                ELSE IF o = "store_fault" THEN MinimalContextResult
                ELSE IF o = "summary_fault"
                THEN FoundContextResult(c.user_id, c.user_data, c.tier_limits,
                                        c.history_data, "summary_failed", <<>>)
                ELSE FoundContextResult(c.user_id, c.user_data, c.tier_limits,
                                        c.history_data, "profile_summary",
                                        BuildSummary(c.user_data, c.tier_limits,
                                                     c.history_data))]
    /\ pc' = "auth_check"
    /\ UNCHANGED <<c, first, hist, classified, w, turn, sessionExists, params, parsed,
                   route, demoted, runs, frWrites, response_text, should_escalate,
                   faulted, reply>>
    /\ ccWrites' = ccWrites + 1
    /\ UNCHANGED savers

\* A stored interaction, as save_conversation writes it.
Interaction(ts, topic, sentiment, status) ==
    [ts |-> ts, topic |-> topic, sentiment |-> sentiment,
     was_escalated |-> status = "escalated", resolution_status |-> status]

\* Histories of the given sentiments, oldest first.
HistoryOf(sentiments) ==
    [i \in 1..Len(sentiments) |->
        Interaction(i, "user_question", sentiments[i], "resolved")]

SeqsUpTo(S, n) == UNION {[1..k -> S] : k \in 0..n}

\* conversation_history documents the context agent is run against.
SampleDocuments ==
    {NoDocument} \cup
    {[exists |-> TRUE, interactions |-> HistoryOf(h), unresolved_issues |-> <<>>] :
        h \in SeqsUpTo({"positive", "frustrated"}, CtxMaxHistory) \cup
              {<<"positive", "positive", "positive", "neutral", "frustrated",
                 "frustrated">>}}

\* state["user_id"] values the context agent is run with.
CtxUserIds == {Absent, "", "C1", "C9"}

\* The context agent about to be run by _authenticated_flow, over a session
\* state with any user_id and a store holding any sample document.
ContextInit ==
    /\ turn = 1
    /\ pc = "context"
    /\ sessionExists = TRUE
    /\ \E u \in CtxUserIds : state = [InitialState EXCEPT !.user_id = u]
    /\ hist \in SampleDocuments
    /\ params = [customer_id |-> ""]
    /\ parsed = NoGuardrailsResult
    /\ route = "AUTH_FLOW"
    /\ demoted = FALSE
    /\ runs = NoRuns
    /\ frWrites = 0
    /\ response_text = ""
    /\ should_escalate = FALSE
    /\ faulted = FALSE
    /\ reply = NoReply
    /\ w = NoWrite
    /\ classified = Absent
    /\ c = NoContextRun
    /\ env = NoEnv
    /\ first = NoCustomerContext
    /\ ccWrites = 0
    /\ savers = NoSavers

\* The context agent is run once more on the same session, the stores being
\* as they were: the result of the run before is kept for comparison.
ContextAgentRerun ==
    /\ pc = "auth_check"
    /\ first.kind = "absent"
    /\ first' = state.customer_context
    /\ pc' = "context"
    /\ UNCHANGED <<c, env, hist, classified, w, turn, sessionExists, state, params,
                   parsed, route, demoted, runs, frWrites, response_text,
                   should_escalate, faulted, reply>>
    /\ UNCHANGED <<ccWrites, savers>>

\* customer_context.get("customer_found", False) in _authenticated_flow.
CustomerFound(cc) ==
    IF cc.kind # "absent" /\ cc.found_key = "customer_found" THEN cc.found ELSE FALSE

\* Faulty variant of AuthenticatedFlowCheck: a customer who is not found ends
\* the turn instead of being served as a guest.
AuthenticatedFlowCheckStops ==
    /\ pc = "auth_check"
    /\ IF CustomerFound(state.customer_context)
       THEN /\ pc' = "rag"
            /\ UNCHANGED demoted
       ELSE /\ pc' = "done"
            /\ demoted' = TRUE
    /\ UNCHANGED <<cvars, classified, w, turn, sessionExists, state, params, parsed, route,
                   runs, frWrites, response_text, should_escalate, faulted, reply>>
    /\ UNCHANGED <<ccWrites, savers>>

\* _authenticated_flow after the context agent: fall back to the guest flow
\* when the customer was not found, else go on with the RAG agent.
AuthenticatedFlowCheck ==
    /\ pc = "auth_check"
    /\ IF CustomerFound(state.customer_context)
       THEN /\ pc' = "rag"
            /\ UNCHANGED demoted
       ELSE /\ pc' = "GUEST_FLOW"
            /\ demoted' = TRUE
    /\ UNCHANGED <<cvars, classified, w, turn, sessionExists, state, params, parsed, route, runs,
                   frWrites, response_text, should_escalate, faulted, reply>>
    /\ UNCHANGED <<ccWrites, savers>>

GuestCustomerContext ==
    [kind |-> "guest", found_key |-> "customer_found", found |-> FALSE,
     is_guest |-> TRUE, summary |-> "Guest user - provide generic information"]
        @@ NoProfileFields

\* Faulty variant of GuestFlow: after a fallback the context the context agent
\* stored is kept.
GuestFlowKeepsContext ==
    /\ pc = "GUEST_FLOW"
    /\ state' = IF demoted THEN state
                ELSE [state EXCEPT !.customer_context = GuestCustomerContext]
    /\ pc' = "rag"
    /\ UNCHANGED <<cvars, classified, w, turn, sessionExists, params, parsed, route, demoted, runs,
                   frWrites, response_text, should_escalate, faulted, reply>>
    /\ ccWrites' = IF demoted THEN ccWrites ELSE ccWrites + 1
    /\ UNCHANGED savers

\* _guest_flow, first lines: the synthetic guest context.
GuestFlow ==
    /\ pc = "GUEST_FLOW"
    /\ state' = [state EXCEPT !.customer_context = GuestCustomerContext]
    /\ pc' = "rag"
    /\ UNCHANGED <<cvars, classified, w, turn, sessionExists, params, parsed, route, demoted, runs,
                   frWrites, response_text, should_escalate, faulted, reply>>
    /\ ccWrites' = ccWrites + 1
    /\ UNCHANGED savers

\* The context agent, and the fallback to the guest flow that follows it.
ContextNext ==
    \/ RunCustomerContextAgent
    \/ FetchProfileAttempt
    \/ FetchLimitsAttempt
    \/ FetchHistoryAttempt
    \/ BuildContextResult
    \/ ContextAgentRerun
    \/ AuthenticatedFlowCheck
    \/ GuestFlow

ContextSpec == ContextInit /\ [][ContextNext]_vars

\* The orchestrator's `async for` drives the agent's generator to its end.
ContextFairSpec == ContextSpec /\ WF_vars(ContextNext)

\* The flow whose tail (RAG, response, write) is running.
InAuthenticatedTail == route = "AUTH_FLOW" /\ ~demoted

\* rag_agent.run_async: the search capability answers, ends without a final
\* text (output_key is then not written), or raises.
RunRagAgent ==
    /\ pc = "rag"
    /\ Ran("rag")
    /\ \/ /\ state' = [state EXCEPT !.rag_answer = "answer"]
          /\ response_text' = "rag_text"
          /\ pc' = "response"
          /\ UNCHANGED faulted
       \/ /\ pc' = "response"
          /\ UNCHANGED <<state, response_text, faulted>>
       \/ /\ pc' = "except"
          /\ faulted' = TRUE
          /\ UNCHANGED <<state, response_text>>
    /\ UNCHANGED <<cvars, classified, w, turn, sessionExists, params, parsed, route, demoted,
                   frWrites, should_escalate, reply>>
    /\ UNCHANGED <<ccWrites, savers>>

\* personalize is set, then response_agent.run_async: its output_key stores the
\* final response, and the webhook's event loop reads text and state_delta.
\* A run that ends without a final text writes nothing; a run may also raise.
RunResponseAgent ==
    /\ pc = "response"
    /\ Ran("response")
    /\ \/ \E out \in ResponseOutputs :
            /\ state' = [state EXCEPT !.personalize = PyBool(InAuthenticatedTail),
                                      !.final_response = out]
            /\ frWrites' = frWrites + 1
            /\ response_text' = out.speech_text
            /\ should_escalate' = IF out.kind = "json" THEN out.should_escalate
                                  ELSE should_escalate
            /\ pc' = "write"
            /\ UNCHANGED faulted
       \/ /\ state' = [state EXCEPT !.personalize = PyBool(InAuthenticatedTail)]
          /\ pc' = "write"
          /\ UNCHANGED <<frWrites, response_text, should_escalate, faulted>>
       \/ /\ state' = [state EXCEPT !.personalize = PyBool(InAuthenticatedTail)]
          /\ pc' = "except"
          /\ faulted' = TRUE
          /\ UNCHANGED <<frWrites, response_text, should_escalate>>
    /\ UNCHANGED <<cvars, classified, w, turn, sessionExists, params, parsed, route, demoted, reply>>
    /\ UNCHANGED <<ccWrites, savers>>

\* ------------------------------------------- app/agents/write_agent.py
\* guardrails_result as the write agent reads it: a dict is used as it is, a
\* text that does not parse and a missing key give the empty dict.
WriteAgentGuardrails(raw) == IF raw.kind = "dict" THEN raw ELSE EmptyDict

\* _map_category_to_topic, for the categories of the model.
MapCategoryToTopic(category) ==
    IF category = "user_question" THEN "user_question" ELSE "general_inquiry"

\* WriteAgent._run_async_impl, up to the telemetry loop: what it extracts from
\* the session state.  The customer is state["user_id"]; is_authenticated is
\* that of the stored guardrails result; was_escalated is read from a
\* final_response that parses as JSON.
RunWriteAgent ==
    /\ pc = "write"
    /\ Ran("write")
    /\ LET g == WriteAgentGuardrails(state.guardrails_result)
       IN  w' = [NoWrite EXCEPT
               !.user_id = IF state.user_id = Absent THEN "" ELSE state.user_id,
               !.is_authenticated = GetIsAuthenticated(g),
               !.topic = MapCategoryToTopic(
                             IF g.category # Absent THEN g.category
                             ELSE "general_inquiry"),
               !.sentiment = GetSentiment(g),
               !.was_escalated =
                   IF state.final_response.kind = "json"
                   THEN state.final_response.should_escalate ELSE FALSE]
    /\ pc' = "write_telemetry"
    /\ UNCHANGED <<cvars, classified, turn, sessionExists, state, params, parsed, route, demoted,
                   frWrites, response_text, should_escalate, faulted, reply>>
    /\ UNCHANGED <<ccWrites, savers>>

\* flow_type as log_telemetry is given it; w.flow_type is that of the row a
\* successful attempt has written.
FlowType(is_authenticated) == IF is_authenticated THEN "authenticated" ELSE "guest"

\* Faulty variant of LogTelemetryAttempt: a failed attempt leaves no entry in
\* errors.
LogTelemetryAttemptSilent ==
    /\ pc = "write_telemetry"
    /\ w.attempt < MAX_RETRIES
    /\ Ran("log_telemetry")
    /\ \/ /\ w' = [w EXCEPT !.telemetry_logged = TRUE, !.attempt = 0,
                            !.flow_type = FlowType(w.is_authenticated)]
          /\ pc' = "write_save"
       \/ /\ w' = [w EXCEPT !.attempt = IF @ + 1 = MAX_RETRIES THEN 0 ELSE @ + 1]
          /\ pc' = IF w.attempt + 1 = MAX_RETRIES THEN "write_save"
                   ELSE "write_telemetry"
    /\ UNCHANGED <<cvars, classified, turn, sessionExists, state, params, parsed, route, demoted,
                   frWrites, response_text, should_escalate, faulted, reply>>
    /\ UNCHANGED <<ccWrites, savers>>

\* Faulty variant of LogTelemetryAttempt: when the last pass has failed the
\* agent gives up and goes straight to its result.
LogTelemetryAttemptGivesUp ==
    /\ pc = "write_telemetry"
    /\ w.attempt < MAX_RETRIES
    /\ Ran("log_telemetry")
    /\ \/ /\ w' = [w EXCEPT !.telemetry_logged = TRUE, !.attempt = 0,
                            !.flow_type = FlowType(w.is_authenticated)]
          /\ pc' = "write_save"
       \/ /\ w' = [w EXCEPT !.errors = Append(@, "Telemetry attempt"),
                            !.attempt = IF @ + 1 = MAX_RETRIES THEN 0 ELSE @ + 1]
          /\ pc' = IF w.attempt + 1 = MAX_RETRIES THEN "write_finish"
                   ELSE "write_telemetry"
    /\ UNCHANGED <<cvars, classified, turn, sessionExists, state, params, parsed, route, demoted,
                   frWrites, response_text, should_escalate, faulted, reply>>
    /\ UNCHANGED <<ccWrites, savers>>

\* One pass of the telemetry loop: log_telemetry returns success or an error
\* value; a failed attempt adds an entry to errors and the loop goes on
\* without waiting.
LogTelemetryAttempt ==
    /\ pc = "write_telemetry"
    /\ w.attempt < MAX_RETRIES
    /\ Ran("log_telemetry")
    /\ \/ /\ w' = [w EXCEPT !.telemetry_logged = TRUE, !.attempt = 0,
                            !.flow_type = FlowType(w.is_authenticated)]
          /\ pc' = "write_save"
       \/ /\ w' = [w EXCEPT !.errors = Append(@, "Telemetry attempt"),
                            !.attempt = IF @ + 1 = MAX_RETRIES THEN 0 ELSE @ + 1]
          /\ pc' = IF w.attempt + 1 = MAX_RETRIES THEN "write_save"
                   ELSE "write_telemetry"
    /\ UNCHANGED <<cvars, classified, turn, sessionExists, state, params, parsed, route, demoted,
                   frWrites, response_text, should_escalate, faulted, reply>>
    /\ UNCHANGED <<ccWrites, savers>>

ResolutionStatus(was_escalated) == IF was_escalated THEN "escalated" ELSE "resolved"

WriteResult(wr) ==
    [conversation_saved |-> wr.conversation_saved,
     telemetry_logged |-> wr.telemetry_logged,
     handoff_ready |-> wr.handoff_ready,
     resolution_status |-> ResolutionStatus(wr.was_escalated),
     errors |-> wr.errors]

\* Faulty variant of SkipSaveAndFinish: the save is entered for any user id,
\* authenticated or not.
SkipSaveAndFinishIgnoresAuth ==
    /\ pc = "write_save"
    /\ IF ~Falsy(w.user_id)
       THEN /\ pc' = "save_conversation"
            /\ UNCHANGED state
       ELSE /\ state' = [state EXCEPT !.write_result = WriteResult(w)]
            /\ pc' = "done"
    /\ UNCHANGED <<cvars, classified, w, turn, sessionExists, params, parsed, route, demoted, runs,
                   frWrites, response_text, should_escalate, faulted, reply>>
    /\ UNCHANGED <<ccWrites, savers>>

\* After the telemetry loop.  STEP 2 is entered only with a user id and
\* is_authenticated; STEP 3 only for an escalated turn with a user id;
\* otherwise write_result is stored and the agent returns.
SkipSaveAndFinish ==
    /\ pc = "write_save"
    /\ IF ~Falsy(w.user_id) /\ w.is_authenticated
       THEN /\ pc' = "save_conversation"
            /\ UNCHANGED state
       ELSE IF w.was_escalated /\ ~Falsy(w.user_id)
       THEN /\ pc' = "write_handoff"
            /\ UNCHANGED state
       ELSE /\ state' = [state EXCEPT !.write_result = WriteResult(w)]
            /\ pc' = "done"
    /\ UNCHANGED <<cvars, classified, w, turn, sessionExists, params, parsed, route, demoted, runs,
                   frWrites, response_text, should_escalate, faulted, reply>>
    /\ UNCHANGED <<ccWrites, savers>>

\* What a call of save_conversation or get_agent_handoff_context can do.
SaveOutcomes == {"ok", "failed", "raised"}

\* Faulty variant of SaveConversationAttempt: the loop does not stop at a
\* success and saves again on its next pass.
SaveConversationAttemptGoesOn ==
    /\ pc = "save_conversation"
    /\ w.attempt < MAX_RETRIES
    /\ Ran("save_conversation")
    /\ \E o \in SaveOutcomes :
         LET last == w.attempt + 1 = MAX_RETRIES
             after == IF w.was_escalated THEN "write_handoff" ELSE "write_finish"
         IN  /\ IF o = "ok"
                THEN LET interaction ==
                             Interaction(env.clock + 1, w.topic, w.sentiment,
                                         ResolutionStatus(w.was_escalated))
                     IN  /\ hist' = SaveConversation(hist, interaction)
                         /\ env' = [env EXCEPT !.clock = @ + 1,
                                               !.saved = Append(@, interaction)]
                         /\ w' = [w EXCEPT !.conversation_saved = TRUE,
                                           !.attempt = IF last THEN 0 ELSE @ + 1]
                ELSE /\ w' = [w EXCEPT !.errors = Append(@, "Save attempt"),
                                       !.attempt = IF last THEN 0 ELSE @ + 1]
                     /\ UNCHANGED <<hist, env>>
             /\ pc' = IF last THEN after ELSE pc
    /\ UNCHANGED <<c, first, classified, turn, sessionExists, state, params, parsed,
                   route, demoted, frWrites, response_text, should_escalate, faulted,
                   reply>>
    /\ UNCHANGED <<ccWrites, savers>>

\* STEP 2, one pass of the save loop: a success appends the interaction to
\* the customer's document and ends the loop; a failure, returned or raised,
\* adds an entry to errors and the loop goes on without waiting.
SaveConversationAttempt ==
    /\ pc = "save_conversation"
    /\ w.attempt < MAX_RETRIES
    /\ Ran("save_conversation")
    /\ \E o \in SaveOutcomes :
         LET last == w.attempt + 1 = MAX_RETRIES
             after == IF w.was_escalated THEN "write_handoff" ELSE "write_finish"
         IN  IF o = "ok"
             THEN LET interaction ==
                          Interaction(env.clock + 1, w.topic, w.sentiment,
                                      ResolutionStatus(w.was_escalated))
                  IN  /\ hist' = SaveConversation(hist, interaction)
                      /\ env' = [env EXCEPT !.clock = @ + 1,
                                            !.saved = Append(@, interaction)]
                  /\ w' = [w EXCEPT !.conversation_saved = TRUE, !.attempt = 0]
                  /\ pc' = after
             ELSE /\ w' = [w EXCEPT !.errors = Append(@, "Save attempt"),
                                    !.attempt = IF last THEN 0 ELSE @ + 1]
                  /\ pc' = IF last THEN after ELSE pc
                  /\ UNCHANGED <<hist, env>>
    /\ UNCHANGED <<c, first, classified, turn, sessionExists, state, params, parsed,
                   route, demoted, frWrites, response_text, should_escalate, faulted,
                   reply>>
    /\ UNCHANGED <<ccWrites, savers>>

\* STEP 3: the hand-off context of an escalated turn; only a raised exception
\* adds an entry to errors.
PrepareHandoffContext ==
    /\ pc = "write_handoff"
    /\ Ran("handoff")
    /\ \E o \in SaveOutcomes :
         w' = [w EXCEPT !.handoff_ready = (o = "ok"),
                        !.errors = IF o = "raised" THEN Append(@, "Handoff context")
                                   ELSE @]
    /\ pc' = "write_finish"
    /\ UNCHANGED <<cvars, classified, turn, sessionExists, state, params, parsed, route,
                   demoted, frWrites, response_text, should_escalate, faulted, reply>>
    /\ UNCHANGED <<ccWrites, savers>>

\* Faulty variant of StoreWriteResult: the completion event carries a text
\* and is passed on to the caller.
StoreWriteResultYieldsText ==
    /\ pc = "write_finish"
    /\ state' = [state EXCEPT !.write_result = WriteResult(w)]
    /\ response_text' = "write_result"
    /\ pc' = "done"
    /\ UNCHANGED <<cvars, classified, w, turn, sessionExists, params, parsed, route,
                   demoted, runs, frWrites, should_escalate, faulted, reply>>
    /\ UNCHANGED <<ccWrites, savers>>

\* The WriteResult is built and stored, and the agent returns.
StoreWriteResult ==
    /\ pc = "write_finish"
    /\ state' = [state EXCEPT !.write_result = WriteResult(w)]
    /\ pc' = "done"
    /\ UNCHANGED <<cvars, classified, w, turn, sessionExists, params, parsed, route,
                   demoted, runs, frWrites, response_text, should_escalate, faulted,
                   reply>>
    /\ UNCHANGED <<ccWrites, savers>>

\* state["user_id"], guardrails_result and final_response values the write
\* agent is run with.
WriteUserIds == {Absent, "", "C1"}
WriteGuardrailsResults ==
    {d \in Decisions : d.action = "allow" /\ d.category \in {"user_question", "out_of_scope"}}
        \cup {NoGuardrailsResult, MalformedGuardrailsResult}
WriteFinalResponses == ResponseOutputs \cup {NoFinalResponse}
WriteDocuments ==
    {NoDocument,
     [exists |-> TRUE, interactions |-> HistoryOf(<<"neutral">>),
      unresolved_issues |-> <<"user_question">>]}

\* The write agent about to be run at the end of a flow, over any such
\* session state and stored document.
WriteInit ==
    /\ turn = 1
    /\ pc = "write"
    /\ sessionExists = TRUE
    /\ \E u \in WriteUserIds, g \in WriteGuardrailsResults, f \in WriteFinalResponses :
          state = [InitialState EXCEPT !.user_id = u, !.guardrails_result = g,
                                       !.final_response = f]
    /\ hist \in WriteDocuments
    /\ params = [customer_id |-> ""]
    /\ parsed = NoGuardrailsResult
    /\ route = "GUEST_FLOW"
    /\ demoted = FALSE
    /\ runs = NoRuns
    /\ frWrites = 0
    /\ response_text = ""
    /\ should_escalate = FALSE
    /\ faulted = FALSE
    /\ reply = NoReply
    /\ w = NoWrite
    /\ classified = Absent
    /\ c = NoContextRun
    /\ env = NoEnv
    /\ first = NoCustomerContext
    /\ ccWrites = 0
    /\ savers = NoSavers

WriteNext ==
    \/ RunWriteAgent
    \/ LogTelemetryAttempt
    \/ SkipSaveAndFinish
    \/ SaveConversationAttempt
    \/ PrepareHandoffContext
    \/ StoreWriteResult

WriteSpec == WriteInit /\ [][WriteNext]_vars

\* The flow's `async for` drives the agent's generator to its end.
WriteFairSpec == WriteSpec /\ WF_vars(WriteNext)

\* ------------------------------------------------ the history store alone
\* resolution_status values in the order the calls of the explored sequences
\* use them: resolved calls, then pending ones, then escalated ones.
StatusRank == [resolved |-> 1, pending |-> 2, escalated |-> 3]

\* No document yet, no call made.
MemoryInit ==
    /\ turn = 0
    /\ pc = "memory"
    /\ sessionExists = FALSE
    /\ state = InitialState
    /\ hist = NoDocument
    /\ params = [customer_id |-> ""]
    /\ parsed = NoGuardrailsResult
    /\ route = Absent
    /\ demoted = FALSE
    /\ runs = NoRuns
    /\ frWrites = 0
    /\ response_text = ""
    /\ should_escalate = FALSE
    /\ faulted = FALSE
    /\ reply = NoReply
    /\ w = NoWrite
    /\ classified = Absent
    /\ c = NoContextRun
    /\ env = NoEnv
    /\ first = NoCustomerContext
    /\ ccWrites = 0
    /\ savers = NoSavers

\* One successful call of save_conversation for the customer.
MemorySave ==
    /\ pc = "memory"
    /\ env.clock < MaxSaves
    /\ \E status \in DOMAIN StatusRank :
         /\ env.saved # <<>> =>
               StatusRank[status] >=
                   StatusRank[env.saved[Len(env.saved)].resolution_status]
         /\ LET interaction ==
                    Interaction(env.clock + 1, "user_question", "neutral", status)
            IN  /\ hist' = SaveConversation(hist, interaction)
                /\ env' = [env EXCEPT !.clock = @ + 1,
                                      !.saved = Append(@, interaction)]
    /\ UNCHANGED <<c, first, classified, w, turn, pc, sessionExists, state, params,
                   parsed, route, demoted, runs, frWrites, response_text,
                   should_escalate, faulted, reply>>
    /\ UNCHANGED <<ccWrites, savers>>

MemoryNext == MemorySave

MemorySpec == MemoryInit /\ [][MemoryNext]_vars

\* ------------------------------------------------------------ specification
\* --------------------------------------------- the sentiment trend alone
\* The sentiments save_conversation documents.
TrendSentiments == {"positive", "neutral", "negative", "frustrated"}

\* Histories the trend is calculated for, oldest first.
TrendDocuments ==
    {[exists |-> TRUE, interactions |-> HistoryOf(h), unresolved_issues |-> <<>>] :
        h \in SeqsUpTo(TrendSentiments, TrendMaxHistory)}

TrendInit ==
    /\ turn = 0
    /\ pc = "trend"
    /\ sessionExists = FALSE
    /\ state = InitialState
    /\ hist \in TrendDocuments
    /\ params = [customer_id |-> ""]
    /\ parsed = NoGuardrailsResult
    /\ route = Absent
    /\ demoted = FALSE
    /\ runs = NoRuns
    /\ frWrites = 0
    /\ response_text = ""
    /\ should_escalate = FALSE
    /\ faulted = FALSE
    /\ reply = NoReply
    /\ w = NoWrite
    /\ classified = Absent
    /\ c = NoContextRun
    /\ env = NoEnv
    /\ first = NoCustomerContext
    /\ ccWrites = 0
    /\ savers = NoSavers

\* _calculate_sentiment_trend is called with the history.
CalculateTrend ==
    /\ pc = "trend"
    /\ c' = [c EXCEPT !.history_data =
                [NoHistory EXCEPT
                    !.sentiment_trend = CalculateSentimentTrend(hist.interactions)]]
    /\ pc' = "trend_done"
    /\ UNCHANGED <<env, first, hist, classified, w, turn, sessionExists, state, params,
                   parsed, route, demoted, runs, frWrites, response_text,
                   should_escalate, faulted, reply>>
    /\ UNCHANGED <<ccWrites, savers>>

\* The same history with another sentiment in one interaction older than its
\* last five; the trend calculated before is kept for comparison.
ChangeOlderInteraction ==
    /\ pc = "trend_done"
    /\ first.kind = "absent"
    /\ \E i \in 1..(Len(hist.interactions) - 5), s \in TrendSentiments :
         /\ s # hist.interactions[i].sentiment
         /\ hist' = [hist EXCEPT !.interactions[i].sentiment = s]
    /\ first' = [first EXCEPT !.kind = "trend",
                              !.sentiment_trend = c.history_data.sentiment_trend]
    /\ pc' = "trend"
    /\ UNCHANGED <<c, env, classified, w, turn, sessionExists, state, params,
                   parsed, route, demoted, runs, frWrites, response_text,
                   should_escalate, faulted, reply>>
    /\ UNCHANGED <<ccWrites, savers>>

TrendNext ==
    \/ CalculateTrend
    \/ ChangeOlderInteraction

TrendSpec == TrendInit /\ [][TrendNext]_vars

\* ------------------- _authenticated_flow over a session that has a user_id
\* guardrails_result values the flow is run with.
FlowGuardrailsResults ==
    {d \in Decisions : /\ d.action = "allow"
                       /\ d.category = "user_question"
                       /\ d.sentiment = "neutral"}

\* _authenticated_flow about to run the context agent, the session state
\* holding a user_id (or an empty one) and an allowed question; the webhook
\* has seen the event of the guardrails run.
FlowInit ==
    /\ turn = 1
    /\ pc = "context"
    /\ sessionExists = TRUE
    /\ \E u \in {"", "C1"}, g \in FlowGuardrailsResults :
          state = [InitialState EXCEPT !.user_id = u, !.guardrails_result = g]
    /\ hist \in WriteDocuments
    /\ params = [customer_id |-> ""]
    /\ parsed = NoGuardrailsResult
    /\ route = "AUTH_FLOW"
    /\ demoted = FALSE
    /\ runs = NoRuns
    /\ frWrites = 0
    /\ response_text = "guardrails_json"
    /\ should_escalate = FALSE
    /\ faulted = FALSE
    /\ reply = NoReply
    /\ w = NoWrite
    /\ classified = Absent
    /\ c = NoContextRun
    /\ env = NoEnv
    /\ first = NoCustomerContext
    /\ ccWrites = 0
    /\ savers = NoSavers

FlowNext ==
    \/ RunCustomerContextAgent
    \/ FetchProfileAttempt
    \/ FetchLimitsAttempt
    \/ FetchHistoryAttempt
    \/ BuildContextResult
    \/ AuthenticatedFlowCheck
    \/ GuestFlow
    \/ RunRagAgent
    \/ RunResponseAgent
    \/ RunWriteAgent
    \/ LogTelemetryAttempt
    \/ SkipSaveAndFinish
    \/ SaveConversationAttempt
    \/ PrepareHandoffContext
    \/ StoreWriteResult
    \/ WebhookReply
    \/ WebhookExcept

FlowSpec == FlowInit /\ [][FlowNext]_vars

\* ------------------------------- save_conversation called side by side
\* Documents the concurrent calls start from: none, a short history, and
\* histories at and just below the cap.
ConcurrentDocuments ==
    {NoDocument} \cup
    {[exists |-> TRUE,
      interactions |-> [i \in 1..n |->
                           Interaction(i, "user_question", "neutral", "resolved")],
      unresolved_issues |-> <<>>] :
        n \in {1, MAX_STORED_INTERACTIONS - 1, MAX_STORED_INTERACTIONS}}

\* Each server process (Cloud Run instance) serves a turn of the same
\* customer and is about to call save_conversation.
ConcurrentInit ==
    /\ turn = 0
    /\ pc = "concurrent"
    /\ sessionExists = FALSE
    /\ state = InitialState
    /\ hist \in ConcurrentDocuments
    /\ params = [customer_id |-> ""]
    /\ parsed = NoGuardrailsResult
    /\ route = Absent
    /\ demoted = FALSE
    /\ runs = NoRuns
    /\ frWrites = 0
    /\ ccWrites = 0
    /\ savers = [s \in Savers |-> [NoSavers[s] EXCEPT !.pc = "call"]]
    /\ response_text = ""
    /\ should_escalate = FALSE
    /\ faulted = FALSE
    /\ reply = NoReply
    /\ w = NoWrite
    /\ classified = Absent
    /\ c = NoContextRun
    /\ env = NoEnv
    /\ first = NoCustomerContext

\* save_conversation up to doc_ref.get(): the interaction record is built
\* and the stored document is read.
SaveConversationGet(s) ==
    /\ pc = "concurrent"
    /\ savers[s].pc = "call"
    /\ \E status \in {"resolved", "pending"} :
         savers' = [savers EXCEPT
                      ![s] = [pc |-> "got", doc |-> hist,
                              interaction |-> Interaction(100 + s, "user_question",
                                                          "neutral", status),
                              success |-> FALSE]]
    /\ UNCHANGED <<cvars, classified, w, turn, pc, sessionExists, state, params,
                   parsed, route, demoted, runs, frWrites, ccWrites, response_text,
                   should_escalate, faulted, reply>>

\* save_conversation from the document it read to its return: doc_ref.update
\* or doc_ref.set writes the lists computed from that document, or the call
\* raises and the function returns success False.
SaveConversationPut(s) ==
    /\ pc = "concurrent"
    /\ savers[s].pc = "got"
    /\ \E o \in {"ok", "raised"} :
         IF o = "ok"
         THEN /\ hist' = SaveConversation(savers[s].doc, savers[s].interaction)
              /\ env' = [env EXCEPT !.saved = Append(@, savers[s].interaction)]
              /\ savers' = [savers EXCEPT ![s].pc = "returned", ![s].success = TRUE]
         ELSE /\ savers' = [savers EXCEPT ![s].pc = "returned"]
              /\ UNCHANGED <<hist, env>>
    /\ UNCHANGED <<c, first, classified, w, turn, pc, sessionExists, state, params,
                   parsed, route, demoted, runs, frWrites, ccWrites, response_text,
                   should_escalate, faulted, reply>>

ConcurrentNext ==
    \/ \E s \in Savers : SaveConversationGet(s)
    \/ \E s \in Savers : SaveConversationPut(s)

ConcurrentSpec == ConcurrentInit /\ [][ConcurrentNext]_vars

\* ------------------------------------------------------------ the webhook
Next ==
    \/ WebhookReceive
    \/ RunAsyncImplStart
    \/ RunGuardrailsAgent
    \/ RouteOnGuardrails
    \/ HandleBlockedRoute
    \/ HandleEscalation
    \/ HandleSimpleResponse
    \/ AuthenticatedFlow
    \/ RunCustomerContextAgent
    \/ AuthenticatedFlowCheck
    \/ GuestFlow
    \/ RunRagAgent
    \/ RunResponseAgent
    \/ RunWriteAgent
    \/ LogTelemetryAttempt
    \/ SkipSaveAndFinish
    \/ WebhookReply
    \/ WebhookExcept

Spec == Init /\ [][Next]_vars

\* ------------------------------------------------------------------ claims
\* The orchestrator has run to its end for the current request.
Completed == pc \in {"done", "replied"} /\ ~faulted /\ route # Absent

\* The router acts on a Decision (a classification result, not the empty dict).
OnDecision == route # Absent /\ parsed.kind = "dict"

\* The stores are reached only through the context agent (profile, limits,
\* history) and the write agent (hand-off context), the search only through
\* the RAG agent.
NoLookups ==
    /\ runs["context"] = 0
    /\ runs["rag"] = 0
    /\ runs["write"] = 0

\* C1: for every Decision the route is the one the precedence block, escalate,
\* simple category, authenticated, guest gives; a block with category greeting
\* is BLOCKED and an authenticated escalate is ESCALATED, never in AUTH_FLOW.
C1_RoutePrecedence ==
    OnDecision =>
        /\ route \in {"BLOCKED", "ESCALATED", "SIMPLE_REPLY", "AUTH_FLOW", "GUEST_FLOW"}
        /\ parsed.action = "block" => route = "BLOCKED"
        /\ parsed.action = "escalate" => route = "ESCALATED"
        /\ (parsed.action = "allow"
              /\ parsed.category \in {"greeting", "thanks", "goodbye"})
           => route = "SIMPLE_REPLY"
        /\ (parsed.action = "allow"
              /\ parsed.category \notin {"greeting", "thanks", "goodbye"}
              /\ parsed.is_authenticated)
           => route = "AUTH_FLOW"
        /\ (parsed.action = "allow"
              /\ parsed.category \notin {"greeting", "thanks", "goodbye"}
              /\ ~parsed.is_authenticated)
           => route = "GUEST_FLOW"
        /\ route = "ESCALATED" => runs["context"] = 0 /\ ~demoted
        /\ pc \in {"BLOCKED", "ESCALATED", "SIMPLE_REPLY", "AUTH_FLOW"} => pc = route

C1_Witness ==
    /\ pc = "done"
    /\ OnDecision
    /\ parsed.action = "block"
    /\ parsed.category = "greeting"
    /\ route = "BLOCKED"

\* C2 (as the claim states it): in a turn final_response is assigned at most
\* once, and a turn that runs to its end has assigned it exactly once, on
\* every route.
C2_OneFinalResponse ==
    /\ frWrites <= 1
    /\ Completed => frWrites = 1 /\ state.final_response.kind # "absent"

\* C3: every request ends with a reply; a request whose handling raised, in
\* the body parsing or anywhere in the pipeline, is answered with the
\* technical-issue message and handed to an agent.
C3_AlwaysReplies ==
    /\ pc = "replied" => reply.sent
    /\ faulted => pc \in {"except", "replied"}
    /\ (pc = "replied" /\ faulted) =>
          reply = [sent |-> TRUE, text |-> "technical_issue",
                   escalate_to_agent |-> TRUE,
                   target_page |-> "LIVE_AGENT_HANDOFF"]

C3_Witness ==
    /\ pc = "replied"
    /\ faulted
    /\ runs["response"] = 1
    /\ reply.sent

\* C4: a Decision with action block ends with should_escalate false, and
\* neither the context agent nor the search is invoked in that turn.
C4_BlockNeverEscalates ==
    (OnDecision /\ parsed.action = "block") =>
        /\ runs["context"] = 0
        /\ runs["rag"] = 0
        /\ Completed => /\ state.final_response.kind = "json"
                        /\ state.final_response.should_escalate = FALSE

C4_Witness ==
    /\ Completed
    /\ OnDecision
    /\ parsed.action = "block"
    /\ parsed.is_authenticated
    /\ parsed.sentiment = "frustrated"

\* C5: a Decision with action escalate ends with should_escalate true and
\* decision escalate.
C5_EscalateAlwaysEscalates ==
    (OnDecision /\ parsed.action = "escalate" /\ Completed) =>
        /\ state.final_response.kind = "json"
        /\ state.final_response.should_escalate = TRUE
        /\ state.final_response.decision = "escalate"

C5_Witness ==
    /\ Completed
    /\ OnDecision
    /\ parsed.action = "escalate"
    /\ parsed.is_authenticated
    /\ parsed.category = "greeting"

\* C6: an allowed greeting, thanks or goodbye takes SIMPLE_REPLY whatever
\* is_authenticated is: decision respond, no escalation, no lookup.
C6_SimpleReply ==
    (OnDecision /\ parsed.action = "allow"
       /\ parsed.category \in {"greeting", "thanks", "goodbye"}) =>
        /\ route = "SIMPLE_REPLY"
        /\ NoLookups
        /\ Completed => /\ state.final_response.decision = "respond"
                        /\ state.final_response.should_escalate = FALSE

C6_Witness ==
    /\ Completed
    /\ OnDecision
    /\ route = "SIMPLE_REPLY"
    /\ parsed.is_authenticated
    /\ parsed.category = "thanks"

\* The context agent has stored its result and the flow has read it.
ContextRead == route = "AUTH_FLOW" /\ runs["context"] = 1 /\ pc # "auth_check"

\* C7: in AUTH_FLOW a customer context with found false sends the turn to the
\* guest flow: search and response agent run once each, personalize is false,
\* the context is the guest one, and the final_response of the turn is the
\* response agent's own output, neither blocked nor escalated by the fallback.
C7_FallbackToGuest ==
    /\ (ContextRead /\ ~demoted) => state.customer_context.found
    /\ (demoted /\ Completed) =>
          /\ runs["rag"] = 1
          /\ runs["response"] = 1
          /\ state.personalize = "False"
          /\ state.customer_context.is_guest
          /\ frWrites <= 1
          /\ frWrites = 1 => state.final_response \in ResponseOutputs

C7_Witness ==
    /\ demoted
    /\ Completed
    /\ frWrites = 1
    /\ state.final_response.kind = "json"
    /\ state.final_response.should_escalate = FALSE
    /\ reply.sent
    /\ ~reply.escalate_to_agent

\* C8 (as the claim states it): an allowed, non-simple, authenticated turn of
\* a request carrying the id of a stored customer completes the authenticated
\* flow: no fallback, customer found, personalize true.
C8_AuthFlowCompletes ==
    (Completed /\ route = "AUTH_FLOW" /\ params.customer_id \in KnownCustomers) =>
        /\ ~demoted
        /\ CustomerFound(state.customer_context)
        /\ state.personalize = "True"

\* C9 (as the claim states it): a request carrying a non-empty customer id is
\* routed on is_authenticated true, so an allowed non-simple turn does not go
\* directly to the guest flow.
C9_SessionIdentityPrecedence ==
    (OnDecision /\ ~Falsy(params.customer_id)) =>
        /\ parsed.is_authenticated
        /\ route # "GUEST_FLOW"

\* C10 (as the claim states it): the classifier runs once, and when it raised
\* or left no result the router acts on escalate / out_of_scope / not
\* authenticated: the turn is ESCALATED and the search is never reached.
C10_ClassifierFaultEscalates ==
    /\ runs["guardrails"] <= 1
    /\ classified \in {"no_result", "raised"} =>
          /\ runs["rag"] = 0
          /\ route # Absent =>
                /\ route = "ESCALATED"
                /\ GetAction(parsed) = "escalate"
                /\ GetCategory(parsed) = "out_of_scope"
                /\ GetIsAuthenticated(parsed) = FALSE

\* C11: when the stored guardrails result is a text that does not parse, the
\* router acts on escalate / out_of_scope / not authenticated: the route is
\* ESCALATED, never BLOCKED, and the final response escalates.
C11_MalformedEscalates ==
    (classified = "malformed" /\ route # Absent) =>
        /\ parsed = DefaultedDecision
        /\ route = "ESCALATED"
        /\ Completed => /\ state.final_response.kind = "json"
                        /\ state.final_response.decision = "escalate"
                        /\ state.final_response.should_escalate = TRUE

C11_Witness ==
    /\ classified = "malformed"
    /\ pc = "replied"
    /\ route = "ESCALATED"
    /\ frWrites = 1

ShortCircuitRoutes == {"BLOCKED", "ESCALATED", "SIMPLE_REPLY"}

\* C12 (as the claim states it): the write agent runs exactly once in every
\* turn that runs to its end, whatever the route.
C12_PersistOncePerRoute ==
    Completed => runs["write"] = 1

\* C12 (amended): the write agent runs at most once in a turn; a turn that
\* runs to its end has run it exactly once on AUTH_FLOW and GUEST_FLOW, once
\* and not twice after the fallback, and not at all on the BLOCKED, ESCALATED
\* and SIMPLE_REPLY routes, where no telemetry row is attempted either.
C12_PersistOnFlowsOnly ==
    /\ runs["write"] <= 1
    /\ Completed =>
          /\ route \in {"AUTH_FLOW", "GUEST_FLOW"} => runs["write"] = 1
          /\ route \in ShortCircuitRoutes =>
                runs["write"] = 0 /\ runs["log_telemetry"] = 0

C12_Witness ==
    /\ pc = "replied"
    /\ ~faulted
    /\ route = "AUTH_FLOW"
    /\ demoted
    /\ runs["write"] = 1
    /\ runs["log_telemetry"] >= 1

\* C13: the context agent is total: whatever the id and whatever the stores
\* and the building of the result do, no exception leaves it, every run
\* that was started returns, and a run that returned has left a
\* customer_context in the session state.
C13_ContextTotal ==
    /\ [](~faulted /\ pc # "except")
    /\ [](pc = "auth_check" => state.customer_context.kind = "context_result")
    /\ (pc = "context" ~> pc = "auth_check")

C13_Witness ==
    /\ pc = "auth_check"
    /\ env.profile = <<"raised", "found">>
    /\ env.limits = <<"failed", "raised">>
    /\ env.history = <<"raised", "raised">>
    /\ env.build = <<"result_fault">>
    /\ state.customer_context = ErrorContextResult

\* C19: run a second time for the same id with the stores answering as they
\* did, the context agent leaves a customer_context equal to the first, field
\* for field; and no run changes the id in the session state or the stored
\* history, which are what the next run reads.
C19_ContextIdempotent ==
    /\ []((pc = "auth_check" /\ first.kind # "absent") => state.customer_context = first)
    /\ [][state'.user_id = state.user_id /\ hist' = hist]_vars

C19_Witness ==
    /\ pc = "auth_check"
    /\ runs["context"] = 2
    /\ first.found
    /\ first.has_previous_interactions
    /\ first.summary_parts # <<>>
    /\ state.customer_context = first

\* C20: with no id no store is called; while the profile fetch has not
\* succeeded neither the limits nor the history store is called; and a run
\* that returns without a profile has made at most MAX_RETRIES profile calls
\* and stored the not-found result.
C20_NoProfileNoLookups ==
    /\ (runs["context"] >= 1 /\ Falsy(c.user_id)) =>
          c.calls = [profile |-> 0, limits |-> 0, history |-> 0]
    /\ c.user_data = NoProfile =>
          /\ c.calls.limits = 0 /\ c.calls.history = 0
          /\ c.calls.profile <= MAX_RETRIES
          /\ (pc = "auth_check" /\ runs["context"] >= 1) =>
                state.customer_context = NotFoundContextResult

C20_Witness ==
    /\ pc = "auth_check"
    /\ c.user_id = "C1"
    /\ env.profile = <<"failed", "raised">>
    /\ c.calls.profile = MAX_RETRIES
    /\ ~state.customer_context.found

RECURSIVE CountOf(_, _)
CountOf(seq, x) ==
    IF seq = <<>> THEN 0
    ELSE (IF seq[1] = x THEN 1 ELSE 0) + CountOf(Tail(seq), x)

\* What the write agent was run with, as the session state holds it.
WriteInputAuthenticated ==
    GetIsAuthenticated(WriteAgentGuardrails(state.guardrails_result))

\* C14: the write agent never raises: whatever telemetry, the history store
\* and the hand-off do, no exception leaves it, every run returns, and a run
\* that returned has stored its write_result; each failed telemetry and save
\* attempt has its entry in errors; and a customer's save is attempted also
\* when every telemetry attempt failed.
C14_WriteNeverRaises ==
    /\ [](~faulted /\ pc # "except")
    /\ (pc = "write" ~> pc = "done")
    /\ [](pc = "done" => state.write_result = WriteResult(w))
    /\ [](/\ CountOf(w.errors, "Telemetry attempt") =
                runs["log_telemetry"] - (IF w.telemetry_logged THEN 1 ELSE 0)
          /\ CountOf(w.errors, "Save attempt") =
                runs["save_conversation"] - (IF w.conversation_saved THEN 1 ELSE 0))
    /\ []((pc = "done" /\ ~Falsy(w.user_id) /\ w.is_authenticated) =>
              runs["save_conversation"] >= 1)

C14_Witness ==
    /\ pc = "done"
    /\ ~w.telemetry_logged
    /\ w.conversation_saved
    /\ w.errors = <<"Telemetry attempt", "Telemetry attempt", "Save attempt">>
    /\ state.write_result.conversation_saved

\* C15: a run of the write agent that has passed its telemetry loop has
\* called log_telemetry at least once, authenticated or not; save_conversation
\* is called only with a user id and is_authenticated true, never for a
\* session without a user id or a result that is not authenticated.
C15_SaveOnlyAuthenticated ==
    /\ (runs["write"] >= 1 /\ pc # "write_telemetry") => runs["log_telemetry"] >= 1
    /\ runs["save_conversation"] > 0 =>
          /\ ~Falsy(state.user_id)
          /\ WriteInputAuthenticated

C15_Witness ==
    /\ pc = "done"
    /\ state.user_id = "C1"
    /\ ~WriteInputAuthenticated
    /\ state.guardrails_result.kind = "dict"
    /\ runs["log_telemetry"] >= 1
    /\ runs["save_conversation"] = 0

\* C16 (as the claim states it): an authenticated turn for a stored customer
\* that runs to its end has called save_conversation for that customer.
C16_AuthFlowSaves ==
    (Completed /\ route = "AUTH_FLOW" /\ params.customer_id \in KnownCustomers) =>
        runs["save_conversation"] >= 1

\* C17: after any number of successful save_conversation calls the stored
\* history holds at most MAX_STORED_INTERACTIONS records, and they are the
\* most recent ones that were appended, in the order they were appended.
C17_HistoryCapFifo ==
    LET n == Len(env.saved)
        k == IF n < 20 THEN n ELSE 20
    IN  /\ Len(hist.interactions) = k
        /\ \A i \in 1..k : hist.interactions[i] = env.saved[n - k + i]

C17_Witness ==
    /\ Len(env.saved) = 21
    /\ Len(hist.interactions) = 20
    /\ hist.interactions[1].ts = 2
    /\ hist.interactions[20].ts = 21

\* C18 (as the claim states it): the trend reported for a stored history is
\* unknown with fewer than two interactions and is a function of the ordered
\* history alone: read with the limit of the context agent or with that of
\* the hand-off context, the same history has the same trend.
C18_TrendFunctionOfHistory ==
    c.history_data.success =>
        /\ Len(hist.interactions) < 2 => c.history_data.sentiment_trend = "unknown"
        /\ c.history_data.sentiment_trend =
               FetchConversationHistory(hist, 10).sentiment_trend

\* The context agent has returned after a profile fetch that gave user data.
ContextBuiltWithProfile == pc = "auth_check" /\ c.user_data # NoProfile

\* The ContextResult was built (not rejected and replaced by the fallback of
\* the outer handler).
ResultBuilt == env.build # <<>> /\ env.build[1] \in {"ok", "summary_fault"}

\* C21: when the profile fetch succeeded and every limits fetch failed, the
\* history fetch is still attempted and the context is stored with found true
\* and no tier limits.
C21_LimitsFailureContinues ==
    (ContextBuiltWithProfile /\ c.tier_limits = NoLimits) =>
        /\ c.calls.limits = MAX_RETRIES
        /\ c.calls.history >= 1
        /\ ResultBuilt =>
              /\ state.customer_context.found
              /\ state.customer_context.found_key = "user_found"
              /\ state.customer_context.tier_limits = NoLimits

C21_Witness ==
    /\ ContextBuiltWithProfile
    /\ c.tier_limits = NoLimits
    /\ env.limits = <<"failed", "raised">>
    /\ c.history_data.success
    /\ state.customer_context.found
    /\ state.customer_context.tier_limits = NoLimits
    /\ state.customer_context.has_previous_interactions

\* C22: when the profile fetch succeeded and every history fetch failed, the
\* context is stored with found true, no previous interactions, zero previous
\* calls, no last topic and no sentiment trend, whether or not the limits
\* were fetched.
C22_HistoryFailureContinues ==
    (ContextBuiltWithProfile /\ ~c.history_data.success /\ ResultBuilt) =>
        /\ c.calls.history = MAX_RETRIES
        /\ state.customer_context.found
        /\ ~state.customer_context.has_previous_interactions
        /\ state.customer_context.total_previous_calls = 0
        /\ state.customer_context.last_topic = NoneVal
        /\ state.customer_context.sentiment_trend = NoneVal
        /\ state.customer_context.summary_parts \in {<<>>, <<"Premium", "first_call">>}

C22_Witness ==
    /\ ContextBuiltWithProfile
    /\ ResultBuilt
    /\ env.history = <<"raised", "failed">>
    /\ hist.exists
    /\ Len(hist.interactions) >= 2
    /\ c.tier_limits # NoLimits
    /\ state.customer_context.found
    /\ state.customer_context.total_previous_calls = 0

\* The profile, limits and history fields of a stored context are all at
\* their defaults.
NothingPopulated(cc) ==
    /\ cc.user_id = NoneVal
    /\ cc.user_tier = NoneVal
    /\ cc.tier_limits = NoLimits
    /\ ~cc.has_previous_interactions
    /\ cc.total_previous_calls = 0
    /\ cc.last_topic = NoneVal
    /\ cc.sentiment_trend = NoneVal

\* C23 (as the claim states it): every stored context with found false has
\* no profile, limits or history field populated and a summary stating that
\* the customer was not found.
C23_NotFoundSummary ==
    LET cc == state.customer_context
    IN  (cc.kind # "absent" /\ ~cc.found) =>
            /\ NothingPopulated(cc)
            /\ cc.summary = "User not found in database"

\* C23 (amended): every stored context with found false has no profile,
\* limits or history field populated; its summary states that the customer
\* was not found when the id was absent or the profile fetch gave no data,
\* reports an error after an internal fault of the context agent, and names
\* the guest user in the synthetic context of the guest flow.
C23_NotFoundUnpopulated ==
    LET cc == state.customer_context
    IN  (cc.kind # "absent" /\ ~cc.found) =>
            /\ NothingPopulated(cc)
            /\ cc.kind = "guest" <=>
                  cc.summary = "Guest user - provide generic information"
            /\ cc.kind = "context_result" =>
                  cc.summary \in {"User not found in database",
                                  "Error fetching user context",
                                  "Critical error storing user context"}
            /\ (pc = "auth_check" /\ c.user_data = NoProfile) =>
                  cc.summary = "User not found in database"
            /\ (pc = "auth_check" /\ c.user_data # NoProfile) =>
                  /\ env.build # <<>>
                  /\ env.build[1] = "result_fault" =>
                        cc.summary = "Error fetching user context"
                  /\ env.build[1] = "store_fault" =>
                        cc.summary = "Critical error storing user context"
                  /\ env.build[1] \in {"result_fault", "store_fault"}

C23_Witness ==
    /\ pc = "auth_check"
    /\ c.user_data # NoProfile
    /\ c.tier_limits # NoLimits
    /\ c.history_data.success
    /\ c.history_data.has_history
    /\ env.build = <<"result_fault">>
    /\ ~state.customer_context.found
    /\ state.customer_context.summary = "Error fetching user context"

\* No answer but the last of a store's answers is a success.
SuccessOnlyLast(answers, successes) ==
    \A i \in 1..(Len(answers) - 1) : answers[i] \notin successes

\* C24: each retried operation (profile, limits, history, telemetry, save) is
\* attempted at most MAX_RETRIES times in a turn, is not attempted again after
\* its first success, and when every attempt fails the agent goes on with the
\* failure as a value: no exception leaves a retry loop.
C24_BoundedRetries ==
    /\ c.calls.profile <= MAX_RETRIES
    /\ c.calls.limits <= MAX_RETRIES
    /\ c.calls.history <= MAX_RETRIES
    /\ runs["log_telemetry"] <= MAX_RETRIES
    /\ runs["save_conversation"] <= MAX_RETRIES
    /\ SuccessOnlyLast(env.profile, {"found", "empty"})
    /\ SuccessOnlyLast(env.limits, {"ok"})
    /\ SuccessOnlyLast(env.history, {"ok"})
    /\ c.user_data # NoProfile => pc # "ctx_profile"
    /\ c.tier_limits # NoLimits => pc # "ctx_limits"
    /\ c.history_data.success => pc # "ctx_history"
    /\ w.telemetry_logged => pc # "write_telemetry"
    /\ w.conversation_saved => pc # "save_conversation"
    /\ Len(env.saved) <= 1
    /\ faulted => (pc \in {"except", "replied"} /\ runs["rag"] >= 1 /\ runs["write"] = 0)

C24_Witness ==
    /\ pc = "done"
    /\ ~faulted
    /\ env.profile = <<"raised", "found">>
    /\ env.limits = <<"failed", "raised">>
    /\ env.history = <<"raised", "raised">>
    /\ runs["log_telemetry"] = MAX_RETRIES
    /\ ~w.telemetry_logged
    /\ runs["save_conversation"] = MAX_RETRIES
    /\ w.conversation_saved
    /\ Len(w.errors) = 3
    /\ state.write_result.errors = w.errors

\* C25 (as the claim states it): a second attempt of a retried operation
\* starts only after the agent has waited, whether the first attempt raised
\* or returned a failure.
C25_BackoffBetweenAttempts ==
    (pc = "ctx_profile" /\ c.attempt = 1) => c.sleeps = 1

\* The score the rule gives a sentiment.
RuleScore(sentiment) ==
    CASE sentiment = "positive" -> 2
      [] sentiment = "neutral" -> 1
      [] sentiment = "negative" -> 0 - 1
      [] sentiment = "frustrated" -> 0 - 2

\* Sum of the rule's scores of interactions from..to of a history.
RECURSIVE RuleSum(_, _, _)
RuleSum(h, from, to) ==
    IF from > to THEN 0 ELSE RuleScore(h[from].sentiment) + RuleSum(h, from + 1, to)

C27_StrictStageOrder ==
    /\ \A s \in {"guardrails", "context", "rag", "response", "write"} : runs[s] <= 1
    /\ route # Absent => runs["guardrails"] = 1
    /\ (route = "AUTH_FLOW" /\ runs["rag"] >= 1) =>
          (runs["context"] = 1 /\ ccWrites >= 1)
    /\ runs["response"] >= 1 => runs["rag"] = 1
    /\ runs["write"] >= 1 => (runs["response"] = 1 /\ frWrites = 1)

\* C28 (as the claim states it): customer_context is written at most once in
\* a turn.
C28_ContextWrittenOnce == ccWrites <= 1

\* C28 (amended): customer_context is written at most twice in a turn and
\* only by the context agent and the guest flow: not at all on the
\* short-circuit routes, once on a turn routed to the guest flow, once by the
\* context agent on the authenticated flow and a second time exactly when
\* that flow falls back to the guest flow, whose synthetic context replaces
\* the stored one; no later stage writes it.
C28_ContextWrittenTwiceAtMost ==
    /\ ccWrites <= 2
    /\ route \notin {"AUTH_FLOW", "GUEST_FLOW"} => ccWrites = 0
    /\ route = "GUEST_FLOW" => ccWrites = (IF pc = "GUEST_FLOW" THEN 0 ELSE 1)
    /\ route = "AUTH_FLOW" => ccWrites <= runs["context"] + 1
    /\ ccWrites = 2 =>
          /\ demoted
          /\ runs["context"] = 1
          /\ state.customer_context = GuestCustomerContext
    /\ (demoted /\ pc # "GUEST_FLOW") => ccWrites = 2

C28_Witness ==
    /\ pc = "replied"
    /\ Completed
    /\ route = "AUTH_FLOW"
    /\ demoted
    /\ runs["write"] = 1
    /\ ccWrites = 2
    /\ state.customer_context = GuestCustomerContext

\* C29 (as the claim states it): a non-empty customer id carried by the
\* request's session parameters is still the session's customer id at every
\* later point of the turn, and it is the id the context agent looks up.
C29_IdentityHintsKept ==
    (route # Absent /\ ~Falsy(params.customer_id)) =>
        /\ state.customer_id = params.customer_id
        /\ runs["context"] >= 1 => c.user_id = params.customer_id

\* C30 (as the claim states it): a turn starts with no guardrails result,
\* customer context, RAG answer or final response in its state, and when the
\* classifier leaves no result the router acts on the empty result, not on
\* the result of an earlier turn.
C30_FreshTurnState ==
    /\ pc = "run" =>
          /\ state.guardrails_result = NoGuardrailsResult
          /\ state.customer_context = NoCustomerContext
          /\ state.rag_answer = Absent
          /\ state.final_response = NoFinalResponse
    /\ (route # Absent /\ classified = "no_result") => parsed.kind = "empty"

\* The positions of the write agent's run.
WritePcs == {"write", "write_telemetry", "write_save", "save_conversation",
             "write_handoff", "write_finish"}

\* A step of the write agent leaves everything the caller is shown as it is.
WriteStepLeavesReply ==
    pc \in WritePcs =>
        /\ state'.final_response = state.final_response
        /\ response_text' = response_text
        /\ should_escalate' = should_escalate
        /\ reply' = reply
        /\ faulted' = faulted

\* C31: no step of the write agent changes final_response, the text and the
\* escalation flag the webhook has collected, or the reply: whatever the
\* telemetry and history writes do, the caller gets what the response stage
\* left.
C31_PersistenceInvisible == [][WriteStepLeavesReply]_vars

C31_Witness ==
    /\ pc = "replied"
    /\ runs["log_telemetry"] = MAX_RETRIES
    /\ ~w.telemetry_logged
    /\ runs["save_conversation"] = MAX_RETRIES
    /\ ~w.conversation_saved
    /\ Len(state.write_result.errors) = 4
    /\ reply.text = "speech"
    /\ reply.escalate_to_agent

\* How far a position of the flow is from the webhook's reply.
StepsLeft ==
    [run |-> 25, guardrails |-> 24, route |-> 23,
     BLOCKED |-> 21, ESCALATED |-> 21, SIMPLE_REPLY |-> 21, AUTH_FLOW |-> 21,
     context |-> 20, ctx_profile |-> 19, ctx_limits |-> 18, ctx_history |-> 17,
     ctx_build |-> 16, auth_check |-> 15, GUEST_FLOW |-> 14, rag |-> 13,
     response |-> 12, write |-> 11, write_telemetry |-> 10, write_save |-> 9,
     save_conversation |-> 8, write_handoff |-> 7, write_finish |-> 6,
     done |-> 5, except |-> 5, replied |-> 0, idle |-> 0]

\* Passes the retry loop at position p has left, given the loop counters.
PassesLeft(p, ctx_attempt, write_attempt) ==
    IF p \in {"ctx_profile", "ctx_limits", "ctx_history"}
    THEN MAX_RETRIES - ctx_attempt
    ELSE IF p \in {"write_telemetry", "save_conversation"}
    THEN MAX_RETRIES - write_attempt
    ELSE MAX_RETRIES

\* A step of a turn brings the reply nearer: it moves on in the flow, or
\* uses up one of the passes of the retry loop it is in; and no store has
\* been called more than MAX_RETRIES times.
TurnStepDecreases ==
    turn' = turn =>
        /\ StepsLeft[pc'] * (MAX_RETRIES + 1) + PassesLeft(pc', c'.attempt, w'.attempt)
             < StepsLeft[pc] * (MAX_RETRIES + 1) + PassesLeft(pc, c.attempt, w.attempt)
        /\ PassesLeft(pc', c'.attempt, w'.attempt) >= 0
        /\ c'.calls.profile <= MAX_RETRIES
        /\ c'.calls.limits <= MAX_RETRIES
        /\ c'.calls.history <= MAX_RETRIES
        /\ runs'["log_telemetry"] <= MAX_RETRIES
        /\ runs'["save_conversation"] <= MAX_RETRIES

\* C32: every turn terminates.  Each step of a turn strictly decreases a
\* bounded measure (the position in the flow, then the passes a retry loop
\* has left), so no loop or fallback repeats indefinitely and every store is
\* called at most MAX_RETRIES times; and as long as the reply has not been
\* sent a step is possible.
C32_TurnTerminates ==
    /\ [][TurnStepDecreases]_vars
    /\ [](pc # "replied" => ENABLED FlowNext)

C32_Witness ==
    /\ pc = "replied"
    /\ ~faulted
    /\ c.calls.profile = MAX_RETRIES
    /\ c.calls.limits = MAX_RETRIES
    /\ c.calls.history = MAX_RETRIES
    /\ runs["log_telemetry"] = MAX_RETRIES
    /\ runs["save_conversation"] = MAX_RETRIES
    /\ runs["handoff"] = 1
    /\ demoted

\* ---------------------------------------------------------------------------
\* C33: on the escalation route the message is the urgent-legal template when
\* the category is urgent_legal whatever the sentiment, otherwise the
\* frustrated template when the sentiment is frustrated, otherwise the generic
\* one; the same text is in the final response and in the reply.
EscalatedTurn == route = "ESCALATED" /\ pc \in {"done", "replied"} /\ ~faulted

C33_EscalationPrecedence ==
    EscalatedTurn =>
        /\ GetCategory(parsed) = "urgent_legal" =>
               state.final_response.speech_text = "ESCALATION.urgent_legal"
        /\ (GetCategory(parsed) # "urgent_legal" /\ GetSentiment(parsed) = "frustrated") =>
               state.final_response.speech_text = "ESCALATION.frustrated"
        /\ (GetCategory(parsed) # "urgent_legal" /\ GetSentiment(parsed) # "frustrated") =>
               state.final_response.speech_text = "ESCALATION.default"
        /\ response_text = state.final_response.speech_text
        /\ pc = "replied" => reply.text = state.final_response.speech_text

C33_Witness ==
    /\ EscalatedTurn
    /\ pc = "replied"
    /\ parsed.category = "urgent_legal"
    /\ parsed.sentiment = "frustrated"
    /\ reply.text = "ESCALATION.urgent_legal"

\* ---------------------------------------------------------------------------
\* C34: whenever a turn ends with a final response whose should_escalate is
\* true, the escalation short-circuit included, the reply carries
\* escalate_to_agent and targets the live-agent hand-off page.
C34_EscalationReachesReply ==
    (pc = "replied" /\ ~faulted /\ frWrites >= 1
       /\ state.final_response.kind = "json"
       /\ state.final_response.should_escalate) =>
        /\ reply.escalate_to_agent
        /\ reply.target_page = "LIVE_AGENT_HANDOFF"

AllSavesReturnedSuccess ==
    \A s \in Savers : savers[s].pc = "returned" /\ savers[s].success

C36_ConcurrentSavesKept ==
    (pc = "concurrent" /\ AllSavesReturnedSuccess) =>
        /\ \A s \in Savers : InSeq(savers[s].interaction, hist.interactions)
        /\ Len(hist.interactions) <= MAX_STORED_INTERACTIONS

\* ---------------------------------------------------------------------------
\* C37: a history of at least two interactions whose most recent ones (up to
\* five) all carry the same sentiment has the trend stable.
C37_ConstantSentimentStable ==
    pc = "trend_done" =>
        LET h == hist.interactions
            n == Len(h)
            k == IF n < 5 THEN n ELSE 5
        IN  (n >= 2 /\ \A i \in (n - k + 1)..n : h[i].sentiment = h[n].sentiment) =>
                c.history_data.sentiment_trend = "stable"

\* ---------------------------------------------------------------------------
\* C38: the flow_type of the telemetry row is that of the flow which produced
\* the answer: authenticated only when the authenticated flow completed with
\* a found customer, guest for the guest flow, demoted turns included.
C38_FlowTypeMatchesFlow ==
    w.flow_type # Absent =>
        /\ w.flow_type = "authenticated" =>
               (route = "AUTH_FLOW" /\ ~demoted /\ CustomerFound(state.customer_context))
        /\ demoted => w.flow_type = "guest"

\* ---------------------------------------------------------------------------
\* C39: the write_result a run of the write agent has stored agrees with what
\* happened.  telemetry_logged is true iff a telemetry row was written;
\* conversation_saved is true iff save_conversation was called and a record
\* was stored; without a telemetry row errors has a telemetry entry; a save
\* that was called and stored nothing has a save entry in errors; and errors
\* is empty (stored as None) only if the first telemetry attempt succeeded and
\* the save, if called, succeeded at its first attempt.
C39_WriteResultConsistent ==
    pc = "done" =>
        LET wr == state.write_result
            telemetryErrors == CountOf(wr.errors, "Telemetry attempt")
            saveErrors == CountOf(wr.errors, "Save attempt")
            rowWritten == w.flow_type # Absent
            saveCalled == runs["save_conversation"] >= 1
            recordStored == env.saved # <<>>
        IN  /\ wr.telemetry_logged <=> rowWritten
            /\ wr.conversation_saved <=> (saveCalled /\ recordStored)
            /\ ~wr.telemetry_logged => telemetryErrors >= 1
            /\ (saveCalled /\ ~wr.conversation_saved) => saveErrors >= 1
            /\ wr.errors = <<>> =>
                  /\ runs["log_telemetry"] = 1 /\ rowWritten
                  /\ saveCalled => (runs["save_conversation"] = 1 /\ recordStored)
            /\ runs["log_telemetry"] >= 2 => telemetryErrors >= 1
            /\ runs["save_conversation"] >= 2 => saveErrors >= 1

C39_Witness ==
    /\ pc = "done"
    /\ state.write_result.telemetry_logged
    /\ ~state.write_result.conversation_saved
    /\ state.write_result.errors = <<"Telemetry attempt", "Save attempt", "Save attempt">>
    /\ runs["log_telemetry"] = 2
    /\ runs["save_conversation"] = 2
    /\ env.saved = <<>>

\* ---------------------------------------------------------------------------
\* A request with a query arrives in a session whose previous request was
\* served by the orchestrator.
NextTurnStarts ==
    /\ turn' = turn + 1
    /\ pc' = "run"
    /\ sessionExists
    /\ runs["guardrails"] >= 1

\* The turn state a later turn starts with holds the request's customer id
\* when that is not empty, and otherwise the id the previous request supplied.
StickyHintStep ==
    NextTurnStarts =>
        /\ ~Falsy(params'.customer_id) => state'.customer_id = params'.customer_id
        /\ (Falsy(params'.customer_id) /\ ~Falsy(params.customer_id)) =>
               state'.customer_id = params.customer_id

\* C40: within a session the identity hints are sticky: once a request has
\* supplied a non-empty customer id, a later turn whose request carries none
\* starts with the earlier value, and a later non-empty value replaces it.
C40_IdentityHintsSticky == [][StickyHintStep]_vars

====
